---- MODULE Spec2Model ----
(***************************************************************************)
(* Cluster API infrastructure provider for Evroc: the EvrocCluster and     *)
(* EvrocMachine reconcilers and the cloud Service they drive, as a state   *)
(* machine.  One reconciliation pass is one action; the cloud provider's   *)
(* API and the management cluster's objects are the state.                 *)
(***************************************************************************)
EXTENDS Integers, Sequences, FiniteSets, TLC

(* ------------------------------ bounds --------------------------------- *)

\* Number of subnets declared in EvrocCluster.Spec.Network.Subnets.
MaxSubnets == 2
MaxInvocations == 3
MaxFragments == 2

(* ------------------------- program constants --------------------------- *)

APIServerPort == 6443
BootstrapDataRetryDelay == 5
TransientRetryDelay == 30

evrocClusterFinalizer == "evroccluster.infrastructure.evroc.com"
evrocMachineFinalizer == "evrocmachine.infrastructure.evroc.com"

(* --------------------------- the fixed objects ------------------------- *)

ClusterName == "c1"
MachineName == "m1"
Project == "proj"
\* Addresses the provider may allocate to a PublicIP.
Addresses == {"203.0.113.7"}
PrivateAddress == "10.0.1.5"
\* Choices of EvrocCluster.Spec.Network.VPC.Name ("" = unspecified).
VPCNameChoices == {"", "vpc-a"}
\* Contents of the bootstrap-data secret's `value` key.
BootstrapPayload == "#cloud-config"
BootstrapPayloads == {BootstrapPayload, "#!/bin/sh"}

SubnetSpecs ==
  [i \in 1..MaxSubnets |->
     [Name |-> "subnet-" \o ToString(i),
      CIDRBlock |-> "10.0." \o ToString(i) \o ".0/24"]]

\* Untouched condition, and a condition marked true.
CondUnset == ""
CondTrue == "True"

VARIABLES
  focus,            \* the controller whose worker the behaviour follows; the other
                    \* controller's effects appear as steps of the environment
  identitySecret,   \* does the secret named by Spec.IdentitySecretName exist
  cluster,          \* the owning CAPI Cluster object
  ec,               \* the EvrocCluster object in the management store
  machine,          \* the owning CAPI Machine object
  bootstrapSecret,  \* the bootstrap-data secret: "absent", "novalue" (no `value`
                    \* key) or the payload under its `value` key
  em,               \* the EvrocMachine object in the management store
  cloud,            \* the provider's resources, by kind
  pass              \* what the reconciliation pass that just returned did

vars == <<focus, identitySecret, cluster, ec, machine, bootstrapSecret, em, cloud, pass>>

(* ------------------------- the provider's API -------------------------- *)

Last(s) == s[Len(s)]

ResourceExists(cl, kind, name) ==
  CASE kind = "VPC" -> name \in cl.vpcs
    [] kind = "Subnet" -> name \in DOMAIN cl.subnets
    [] kind = "PublicIP" -> name \in DOMAIN cl.publicIPs
    [] kind = "Disk" -> name \in DOMAIN cl.disks
    [] kind = "VM" -> name \in DOMAIN cl.vms

Put(f, k, v) == [x \in DOMAIN f \cup {k} |-> IF x = k THEN v ELSE f[x]]
Drop(f, k) == [x \in DOMAIN f \ {k} |-> f[x]]

StoreCreate(cl, kind, name, obj) ==
  CASE kind = "VPC" -> [cl EXCEPT !.vpcs = @ \cup {name}]
    [] kind = "Subnet" -> [cl EXCEPT !.subnets = Put(@, name, obj)]
    [] kind = "PublicIP" -> [cl EXCEPT !.publicIPs = Put(@, name, obj)]
    [] kind = "Disk" -> [cl EXCEPT !.disks = Put(@, name, obj)]
    [] kind = "VM" -> [cl EXCEPT !.vms = Put(@, name, obj)]

StoreDelete(cl, kind, name) ==
  CASE kind = "VPC" -> [cl EXCEPT !.vpcs = @ \ {name}]
    [] kind = "Subnet" -> [cl EXCEPT !.subnets = Drop(@, name)]
    [] kind = "PublicIP" -> [cl EXCEPT !.publicIPs = Drop(@, name)]
    [] kind = "Disk" -> [cl EXCEPT !.disks = Drop(@, name)]
    [] kind = "VM" -> [cl EXCEPT !.vms = Drop(@, name)]

Call(op, kind, name, res) == [op |-> op, kind |-> kind, name |-> name, res |-> res]

LastAnswer(st) == Last(st.calls).res

\* The answers of a request that fails: "timeout", an error whose message
\* holds "timeout" (transient for IsTransientError), and "error", any other
\* error that is not not-found.
FailureAnswers == {"error", "timeout"}

\* The answer of a failing n-th request of the pass: the fault names the
\* request, its sign the answer ("" when this request does not fail).
FaultAnswer(fault, n) ==
  IF fault = n THEN "error" ELSE IF -fault = n THEN "timeout" ELSE ""

\* s.Get: the request the fault names fails with an error other than
\* not-found; otherwise the store answers.
Get(st, fault, kind, name) ==
  LET res == IF FaultAnswer(fault, Len(st.calls) + 1) # ""
             THEN FaultAnswer(fault, Len(st.calls) + 1)
             ELSE IF ResourceExists(st.cloud, kind, name) THEN "found"
             ELSE "notfound"
  IN  [st EXCEPT !.calls = Append(@, Call("get", kind, name, res)),
                 !.err = (res \in FailureAnswers)]

\* s.Create.
Create(st, fault, kind, name, obj) ==
  LET res == IF FaultAnswer(fault, Len(st.calls) + 1) # ""
             THEN FaultAnswer(fault, Len(st.calls) + 1) ELSE "ok"
  IN  [st EXCEPT !.calls = Append(@, Call("create", kind, name, res)),
                 !.err = (res \in FailureAnswers),
                 !.cloud = IF res = "ok" THEN StoreCreate(@, kind, name, obj) ELSE @]

\* Sequencing: x := e; F(x).  The value of e is computed once.
Then(e, F(_)) == CHOOSE r \in {F(x) : x \in {e}} : TRUE

\* s.Delete: the answer is the injected one ("forbidden", "error"), or the
\* store's: "ok" when the resource was there, "notfound" otherwise.
Delete(st, answer, kind, name) ==
  LET res == IF answer # "none" THEN answer
             ELSE IF ResourceExists(st.cloud, kind, name) THEN "ok"
             ELSE "notfound"
  IN  [st EXCEPT !.calls = Append(@, Call("delete", kind, name, res)),
                 !.cloud = IF res = "ok" THEN StoreDelete(@, kind, name) ELSE @]

DeleteAnswers == {"none", "forbidden", "error"}

\* Variant: creates whatever the fetch answered.
CreateIfNotFound_Always(g, fault, kind, name, obj) ==
  IF g.err THEN g ELSE Create(g, fault, kind, name, obj)

\* Variant: a resource that was found is updated to the desired one.
CreateIfNotFound_UpdatesFound(g, fault, kind, name, obj) ==
  IF g.err THEN g
  ELSE IF LastAnswer(g) = "found"
  THEN [g EXCEPT !.calls = Append(@, Call("update", kind, name, "ok")),
                 !.cloud = StoreCreate(@, kind, name, obj)]
  ELSE Create(g, fault, kind, name, obj)

\* After s.Get: create when the answer was not-found.
CreateIfNotFound(g, fault, kind, name, obj) ==
  IF g.err \/ LastAnswer(g) = "found" THEN g
  ELSE Create(g, fault, kind, name, obj)

\* The get-or-create idiom: fetch by name; create when not found; any other
\* error of either call is returned.
GetOrCreate(st, fault, kind, name, obj) ==
  Then(Get(st, fault, kind, name), LAMBDA g : CreateIfNotFound(g, fault, kind, name, obj))

\* After s.Delete: the function returns an error unless the answer is one of
\* those it tolerates.
Tolerating(st, tolerated) ==
  IF LastAnswer(st) \in tolerated THEN st ELSE [st EXCEPT !.err = TRUE]

(* ------------------- Service: network of the cluster ------------------- *)

VPCNameOf(o) == IF o.Spec.VPCName = "" THEN o.Name ELSE o.Spec.VPCName

ControlPlanePublicIPNameOf(o) == o.Name \o "-cp-publicip"

SubnetStatus(spec) ==
  [Name |-> spec.Name, ID |-> spec.Name, CIDRBlock |-> spec.CIDRBlock, Ready |-> TRUE]

\* ReconcileNetwork, the VPC: get-or-create, then the VPC status.
ReconcileVPC(st, fault) ==
  LET vpcName == VPCNameOf(st.o) IN
  IF st.err THEN st
  ELSE [st EXCEPT !.o.Status.VPC = [Name |-> vpcName, Ready |-> TRUE]]

\* ReconcileNetwork, the loop over Spec.Network.Subnets from index i; the
\* statuses are assigned to the object after the last subnet only.
RECURSIVE ReconcileSubnets(_, _, _, _)
ReconcileSubnets(st, fault, i, statuses) ==
  IF st.err THEN st
  ELSE IF i > Len(st.o.Spec.Subnets) THEN [st EXCEPT !.o.Status.Subnets = statuses]
  ELSE Then(GetOrCreate(st, fault, "Subnet", st.o.Spec.Subnets[i].Name,
                        [VpcRef |-> VPCNameOf(st.o),
                         Block |-> st.o.Spec.Subnets[i].CIDRBlock]),
            LAMBDA s : ReconcileSubnets(s, fault, i + 1,
                                        Append(statuses, SubnetStatus(st.o.Spec.Subnets[i]))))

\* Variant: the subnet statuses are appended to those already in the status.
ReconcileNetwork_Appends(st, fault) ==
  Then(GetOrCreate(st, fault, "VPC", VPCNameOf(st.o), TRUE), LAMBDA g :
    Then(ReconcileVPC(g, fault),
         LAMBDA v : ReconcileSubnets(v, fault, 1, v.o.Status.Subnets)))

ReconcileNetwork(st, fault) ==
  Then(GetOrCreate(st, fault, "VPC", VPCNameOf(st.o), TRUE), LAMBDA g :
    Then(ReconcileVPC(g, fault), LAMBDA v : ReconcileSubnets(v, fault, 1, <<>>)))

\* ReconcileControlPlanePublicIP, after the create: fetch again.
RefetchPublicIP(c, fault, name) ==
  IF c.err THEN c ELSE Get(c, fault, "PublicIP", name)

\* Variant: creates whatever the first fetch answered.
CreatePublicIPIfNotFound_Always(g, fault, name) ==
  IF g.err THEN g
  ELSE RefetchPublicIP(Create(g, fault, "PublicIP", name, ""), fault, name)

\* ReconcileControlPlanePublicIP, after the first fetch.
CreatePublicIPIfNotFound(g, fault, name) ==
  IF g.err \/ LastAnswer(g) = "found" THEN g
  ELSE Then(Create(g, fault, "PublicIP", name, ""),
            LAMBDA c : RefetchPublicIP(c, fault, name))

\* ReconcileControlPlanePublicIP: the run; name and address are read off it
\* by PublicIPNameOf and PublicIPAddressOf.
ReconcileControlPlanePublicIP(st, fault) ==
  Then(Get(st, fault, "PublicIP", ControlPlanePublicIPNameOf(st.o)), LAMBDA g :
    CreatePublicIPIfNotFound(g, fault, ControlPlanePublicIPNameOf(st.o)))

\* The three values ReconcileControlPlanePublicIP returns besides the error.
PublicIPNameOf(st) == IF st.err THEN "" ELSE ControlPlanePublicIPNameOf(st.o)
PublicIPAddressOf(st) ==
  IF st.err THEN "" ELSE st.cloud.publicIPs[ControlPlanePublicIPNameOf(st.o)]

\* DeleteNetwork, the loop over Spec.Network.Subnets from index i:
\* not-found and forbidden are skipped, any other error is returned.
RECURSIVE DeleteSubnets(_, _, _)
DeleteSubnets(st, inj, i) ==
  IF st.err \/ i > Len(st.o.Spec.Subnets) THEN st
  ELSE Then(Tolerating(Delete(st, inj[i], "Subnet", st.o.Spec.Subnets[i].Name),
                       {"ok", "notfound", "forbidden"}),
            LAMBDA s : DeleteSubnets(s, inj, i + 1))

\* DeleteNetwork, the control-plane PublicIP by its deterministic name: only
\* not-found is skipped.
DeleteControlPlanePublicIP(st, inj) ==
  IF st.err THEN st
  ELSE Tolerating(Delete(st, inj[Len(st.o.Spec.Subnets) + 1], "PublicIP",
                         ControlPlanePublicIPNameOf(st.o)),
                  {"ok", "notfound"})

\* Variant: the answer to the VPC delete is not looked at.
DeleteVPC_Unchecked(st, inj) ==
  IF st.err THEN st
  ELSE Delete(st, inj[Len(st.o.Spec.Subnets) + 2], "VPC", VPCNameOf(st.o))

\* DeleteNetwork, the VPC: not-found and forbidden are skipped.
DeleteVPC(st, inj) ==
  IF st.err THEN st
  ELSE Tolerating(Delete(st, inj[Len(st.o.Spec.Subnets) + 2], "VPC", VPCNameOf(st.o)),
                  {"ok", "notfound", "forbidden"})

\* Variant: the VPC is deleted first, then the subnets and the PublicIP.
DeleteNetwork_VPCFirst(st, inj) ==
  Then(Then(Then(st, LAMBDA s : DeleteVPC(s, inj)),
            LAMBDA s : DeleteSubnets(s, inj, 1)),
       LAMBDA s : DeleteControlPlanePublicIP(s, inj))

\* DeleteNetwork: subnets, then the control-plane PublicIP, then the VPC.
DeleteNetwork(st, inj) ==
  Then(Then(Then(st, LAMBDA s : DeleteSubnets(s, inj, 1)),
            LAMBDA s : DeleteControlPlanePublicIP(s, inj)),
       LAMBDA s : DeleteVPC(s, inj))

(* -------------------------- EvrocCluster reconciler -------------------- *)

\* The EvrocCluster as created by the operator: no finalizer, empty status.
NewEvrocCluster(vpcName, nSubnets) ==
  [Name |-> ClusterName,
   Exists |-> TRUE,
   Finalizer |-> FALSE,
   DeletionTimestamp |-> FALSE,
   OwnerRef |-> FALSE,
   Spec |-> [Project |-> Project, VPCName |-> vpcName,
             Subnets |-> SubSeq(SubnetSpecs, 1, nSubnets)],
   Status |-> [Ready |-> FALSE,
               ControlPlanePublicIPName |-> "",
               VPC |-> [Name |-> "", Ready |-> FALSE],
               Subnets |-> <<>>],
   Conditions |-> [Ready |-> CondUnset, NetworkReady |-> CondUnset]]

NoEndpoint == [Host |-> "", Port |-> 0]

\* What a pass reports: the object as fetched and as left in memory, the
\* calls issued, the ctrl.Result and error returned, whether the deferred
\* patch committed, and what the pass observed and wrote on the way.
PassRecord(rec, path, before, after, calls, requeueAfter, err, patched, seen, wrote) ==
  [rec |-> rec, path |-> path, before |-> before, after |-> after, calls |-> calls,
   requeueAfter |-> requeueAfter, err |-> err, patched |-> patched,
   seen |-> seen, wrote |-> wrote]

NoPass == PassRecord("none", "none", <<>>, <<>>, <<>>, 0, FALSE, FALSE, "", NoEndpoint)

\* The state of a reconcile function on its way: the run, the result it will
\* return (requeueAfter, err), the path it returned on ("" while running),
\* the Cluster object, what it observed and what it wrote to the Cluster.
Begin(cl, o, cobj) ==
  [cloud |-> cl, calls |-> <<>>, err |-> FALSE, o |-> o, committed |-> o,
   cluster |-> cobj, requeueAfter |-> 0, path |-> "", seen |-> "", wrote |-> NoEndpoint]

Returned(st) == st.path # ""

\* Variant: adds the finalizer and goes on provisioning in the same pass.
EnsureFinalizer_GoesOn(st) ==
  IF st.o.Finalizer THEN st ELSE [st EXCEPT !.o.Finalizer = TRUE]

\* reconcileNormal: add the finalizer if not present, and return.
EnsureFinalizer(st) ==
  IF st.o.Finalizer THEN st
  ELSE [st EXCEPT !.o.Finalizer = TRUE, !.path = "finalizer"]

\* Variant: a failure of ReconcileNetwork is recorded in the conditions but
\* the pass goes on.
AfterReconcileNetwork_GoesOn(st) ==
  IF st.err
  THEN [st EXCEPT !.o.Conditions.NetworkReady = "NetworkReconciliationFailed",
                  !.o.Conditions.Ready = "NetworkNotReady",
                  !.err = FALSE]
  ELSE [st EXCEPT !.o.Conditions.NetworkReady = CondTrue]

\* reconcileNormal of the cluster, after ReconcileNetwork.
AfterReconcileNetwork(st) ==
  IF st.err
  THEN [st EXCEPT !.o.Conditions.NetworkReady = "NetworkReconciliationFailed",
                  !.o.Conditions.Ready = "NetworkNotReady",
                  !.path = "network"]
  ELSE [st EXCEPT !.o.Conditions.NetworkReady = CondTrue]

\* Variant: does not wait for the address, goes on with whatever was read.
AfterReconcilePublicIP_NoWait(st) ==
  IF st.err THEN [st EXCEPT !.path = "publicip"]
  ELSE [st EXCEPT !.o.Status.ControlPlanePublicIPName = PublicIPNameOf(st),
                  !.seen = PublicIPAddressOf(st)]

\* Variant: returns without a requeue delay while the address is missing.
AfterReconcilePublicIP_NoRequeue(st) ==
  IF st.err THEN [st EXCEPT !.path = "publicip"]
  ELSE IF PublicIPAddressOf(st) = ""
  THEN [st EXCEPT !.o.Status.ControlPlanePublicIPName = PublicIPNameOf(st),
                  !.path = "waitaddress"]
  ELSE [st EXCEPT !.o.Status.ControlPlanePublicIPName = PublicIPNameOf(st),
                  !.seen = PublicIPAddressOf(st)]

\* reconcileNormal of the cluster, after ReconcileControlPlanePublicIP.
AfterReconcilePublicIP(st) ==
  IF st.err THEN [st EXCEPT !.path = "publicip"]
  ELSE IF PublicIPAddressOf(st) = ""
  THEN [st EXCEPT !.o.Status.ControlPlanePublicIPName = PublicIPNameOf(st),
                  !.requeueAfter = BootstrapDataRetryDelay,
                  !.path = "waitaddress"]
  ELSE [st EXCEPT !.o.Status.ControlPlanePublicIPName = PublicIPNameOf(st),
                  !.seen = PublicIPAddressOf(st)]

\* Variant: patches the Cluster whatever its endpoint is.
reconcileControlPlaneEndpoint_Always(st, fault, publicIPAddress) ==
  LET ep == [Host |-> publicIPAddress, Port |-> APIServerPort] IN
  IF fault # Len(st.calls) + 1
  THEN [st EXCEPT !.calls = Append(@, Call("patch", "Cluster", st.cluster.Name, "ok")),
                  !.cluster.ControlPlaneEndpoint = ep,
                  !.wrote = ep]
  ELSE [st EXCEPT !.calls = Append(@, Call("patch", "Cluster", st.cluster.Name, "error")),
                  !.err = TRUE]

\* reconcileControlPlaneEndpoint: skip when already set, else patch the Cluster.
reconcileControlPlaneEndpoint(st, fault, publicIPAddress) ==
  LET ok == fault # Len(st.calls) + 1
      ep == [Host |-> publicIPAddress, Port |-> APIServerPort]
  IN
  IF st.cluster.ControlPlaneEndpoint.Host = publicIPAddress
     /\ st.cluster.ControlPlaneEndpoint.Port = APIServerPort
  THEN st
  ELSE IF ok
  THEN [st EXCEPT !.calls = Append(@, Call("patch", "Cluster", st.cluster.Name, "ok")),
                  !.cluster.ControlPlaneEndpoint = ep,
                  !.wrote = ep]
  ELSE [st EXCEPT !.calls = Append(@, Call("patch", "Cluster", st.cluster.Name, "error")),
                  !.err = TRUE]

\* Variant: the endpoint step runs whether the owner Cluster is set or not.
ReconcileEndpointIfOwned_Always(st, fault) ==
  reconcileControlPlaneEndpoint(st, fault, st.seen)

\* reconcileNormal of the cluster, the endpoint step: only when the owner
\* Cluster is set.
ReconcileEndpointIfOwned(st, fault) ==
  IF st.o.OwnerRef THEN reconcileControlPlaneEndpoint(st, fault, st.seen) ELSE st

\* reconcileNormal of the cluster, the end: mark ready unless the endpoint
\* step failed.
MarkClusterReady(st) ==
  IF st.err THEN [st EXCEPT !.path = "endpoint"]
  ELSE [st EXCEPT !.o.Conditions.Ready = CondTrue, !.o.Status.Ready = TRUE,
                  !.path = "ready"]

ClusterEndpointAndReady(st, fault) ==
  IF Returned(st) THEN st
  ELSE Then(ReconcileEndpointIfOwned(st, fault), LAMBDA s : MarkClusterReady(s))

ClusterPublicIP(st, fault) ==
  IF Returned(st) THEN st
  ELSE Then(ReconcileControlPlanePublicIP(st, fault), LAMBDA s : AfterReconcilePublicIP(s))

ClusterNetwork(st, fault) ==
  IF Returned(st) THEN st
  ELSE Then(ReconcileNetwork(st, fault), LAMBDA s : AfterReconcileNetwork(s))

\* EvrocClusterReconciler.reconcileNormal.
ClusterReconcileNormal(st, fault) ==
  Then(EnsureFinalizer(st), LAMBDA s1 :
    Then(ClusterNetwork(s1, fault), LAMBDA s2 :
      Then(ClusterPublicIP(s2, fault), LAMBDA s3 :
        ClusterEndpointAndReady(s3, fault))))

\* reconcileDelete, after the Service's delete function: remove the
\* finalizer unless it returned an error.
RemoveFinalizerUnlessError(st) ==
  IF st.err THEN [st EXCEPT !.path = "delete"]
  ELSE [st EXCEPT !.o.Finalizer = FALSE, !.path = "delete"]

\* EvrocClusterReconciler.reconcileDelete.
ClusterReconcileDelete(st, inj) ==
  Then(DeleteNetwork(st, inj), LAMBDA s : RemoveFinalizerUnlessError(s))

\* The deferred patch and the value Reconcile returns: the pass record.
\* Variant: the error of the deferred patch is logged and not returned.
Finish_PatchErrorDropped(rec, before, st, patchFails) ==
  PassRecord(rec, st.path, before, st.o, st.calls, st.requeueAfter,
             st.err, ~patchFails, st.seen, st.wrote)

Finish(rec, before, st, patchFails) ==
  PassRecord(rec, st.path, before, st.o, st.calls, st.requeueAfter,
             st.err \/ patchFails, ~patchFails, st.seen, st.wrote)

\* Variant: Reconcile never looks at the pause.
ClusterPaused_Ignored == FALSE

ClusterPaused == ec.OwnerRef /\ cluster.Paused

\* Variant: Reconcile never looks at the deletion timestamp.
DeletionRequested_Never(o) == FALSE

\* Reconcile: !DeletionTimestamp.IsZero(), tested before reconcileNormal.
DeletionRequested(o) == o.DeletionTimestamp

\* No pass is in progress: the worker is waiting for the next event.
Idle == pass.rec = "none"

\* The pass that just ran hands its ctrl.Result and error to the work queue.
PassReturns ==
  /\ ~Idle
  /\ pass' = NoPass
  /\ UNCHANGED <<focus, identitySecret, cluster, ec, machine, bootstrapSecret, em, cloud>>

\* Reconcile, exits before the patch helper exists: the object is gone, or
\* the owning Cluster is paused.  Nothing is read further, nothing written.
EvrocClusterReconcileNoop ==
  /\ Idle /\ focus = "EvrocCluster"
  /\ ~ec.Exists \/ ClusterPaused
  /\ pass' = PassRecord("cluster", IF ec.Exists THEN "paused" ELSE "notfound",
                        ec, ec, <<>>, 0, FALSE, FALSE, "", NoEndpoint)
  /\ UNCHANGED <<focus, identitySecret, cluster, ec, machine, bootstrapSecret, em, cloud>>

\* Reconcile, evroc.New fails: no secret that yields a client.  Identity
\* secret not found: requeue, no error.  Any other failure (the read itself
\* fails, the secret has no 'config' or 'kubeconfig' key, the kubeconfig
\* does not load): the wrapped error is returned.  Either way the deferred
\* patch runs on an unchanged object.
EvrocClusterReconcileNoSecret ==
  /\ Idle /\ focus = "EvrocCluster"
  /\ ec.Exists /\ ~ClusterPaused /\ ~identitySecret
  /\ \E patchFails \in BOOLEAN, answer \in {"notfound", "error"} :
       /\ pass' = IF answer = "notfound"
                  THEN PassRecord("cluster", "nosecret", ec, ec, <<>>,
                                  BootstrapDataRetryDelay, patchFails, ~patchFails,
                                  "", NoEndpoint)
                  ELSE PassRecord("cluster", "clienterror", ec, ec, <<>>, 0, TRUE,
                                  ~patchFails, "", NoEndpoint)
  /\ UNCHANGED <<focus, identitySecret, cluster, ec, machine, bootstrapSecret, em, cloud>>

\* Commit of a cluster pass: the provider's state, the Cluster object, the
\* EvrocCluster as patched (or not), and the pass record.
CommitClusterPass(st, patchFails) ==
  /\ cloud' = st.cloud
  /\ cluster' = st.cluster
  /\ ec' = IF patchFails THEN ec ELSE st.o
  /\ pass' = Finish("cluster", ec, st, patchFails)

\* Reconcile with a deletion timestamp: reconcileDelete, then the deferred
\* patch; the provider answers each delete from answers, the patch fails or
\* not as patches allows.
EvrocClusterDeletePass(answers, patches) ==
  /\ Idle /\ focus = "EvrocCluster"
  /\ ec.Exists /\ ~ClusterPaused /\ identitySecret /\ DeletionRequested(ec)
  /\ \E inj \in [1..(Len(ec.Spec.Subnets) + 2) -> answers], patchFails \in patches :
       \E st \in {ClusterReconcileDelete(Begin(cloud, ec, cluster), inj)} :
         CommitClusterPass(st, patchFails)
  /\ UNCHANGED <<focus, identitySecret, machine, bootstrapSecret, em>>

EvrocClusterReconcileDelete == EvrocClusterDeletePass(DeleteAnswers, BOOLEAN)

\* The same pass against a provider that answers every delete with success,
\* not-found or forbidden, and an API server that accepts the patch.
EvrocClusterReconcileDeleteAnswered == EvrocClusterDeletePass({"none", "forbidden"}, {FALSE})

\* Calls of the longest cluster pass: get and create of the VPC and of each
\* subnet, three calls for the PublicIP, the patch of the Cluster.
MaxClusterCalls == 2 * MaxSubnets + 6

\* Reconcile without a deletion timestamp: reconcileNormal, then the deferred
\* patch; one request of the pass fails as faults allows, the patch fails or
\* not as patches allows.
EvrocClusterNormalPass(faults, patches) ==
  /\ Idle /\ focus = "EvrocCluster"
  /\ ec.Exists /\ ~ClusterPaused /\ identitySecret /\ ~DeletionRequested(ec)
  /\ \E fault \in faults, patchFails \in patches :
       \E st \in {ClusterReconcileNormal(Begin(cloud, ec, cluster), fault)} :
         CommitClusterPass(st, patchFails)
  /\ UNCHANGED <<focus, identitySecret, machine, bootstrapSecret, em>>

EvrocClusterReconcileNormal ==
  EvrocClusterNormalPass((-MaxClusterCalls)..MaxClusterCalls, BOOLEAN)

\* The same pass when the provider answers every request and the API server
\* accepts the patches.
EvrocClusterReconcileNormalAnswered == EvrocClusterNormalPass({0}, {FALSE})

(* ------------------------ Service: one machine -------------------------- *)

MachinePublicIPNameOf(o) == o.Name \o "-publicip"

BootDiskNameOf(o) == o.Name \o "-bootdisk"

\* base64.StdEncoding.EncodeToString, kept symbolic.
StdEncoding(data) == "base64(" \o data \o ")"

ProviderIDOf(ecObj, vmName) == "evroc://" \o ecObj.Spec.Project \o "/" \o vmName

\* ReconcileMachine: is the cluster's pre-allocated PublicIP reused.
ReusesControlPlanePublicIP(ecObj, mobj) ==
  mobj.IsControlPlane /\ ecObj.Status.ControlPlanePublicIPName # ""

\* ReconcileMachine: the publicIPName the VM will reference.
VMPublicIPNameOf(ecObj, o, mobj) ==
  IF ~o.Spec.PublicIP THEN ""
  ELSE IF ReusesControlPlanePublicIP(ecObj, mobj)
  THEN ecObj.Status.ControlPlanePublicIPName
  ELSE MachinePublicIPNameOf(o)

\* The VirtualMachine object ReconcileMachine builds before fetching.
DesiredVM(o, publicIPName, bootstrapData) ==
  [Status |-> "",
   PublicIPRef |-> publicIPName,
   DiskRef |-> BootDiskNameOf(o),
   CloudInitUserData |-> StdEncoding(bootstrapData),
   PrivateIPv4Address |-> "",
   PublicIPv4Address |-> ""]

\* ReconcileMachine, the PublicIP: a per-machine one is ensured when a public
\* IP is requested and the cluster's is not reused.
ReconcileMachinePublicIP(st, fault, ecObj, mobj) ==
  IF st.o.Spec.PublicIP /\ ~ReusesControlPlanePublicIP(ecObj, mobj)
  THEN GetOrCreate(st, fault, "PublicIP", MachinePublicIPNameOf(st.o), "")
  ELSE st

\* Variant: the boot disk is ensured whatever the PublicIP step returned.
ReconcileBootDisk_GoesOn(st, fault) ==
  GetOrCreate(st, fault, "Disk", BootDiskNameOf(st.o), "bootdisk")

\* ReconcileMachine, the boot disk.
ReconcileBootDisk(st, fault) ==
  IF st.err THEN st
  ELSE GetOrCreate(st, fault, "Disk", BootDiskNameOf(st.o), "bootdisk")

\* ReconcileMachine, the VM.
ReconcileVM(st, fault, ecObj, mobj, bootstrapData) ==
  IF st.err THEN st
  ELSE GetOrCreate(st, fault, "VM", st.o.Name,
                   DesiredVM(st.o, VMPublicIPNameOf(ecObj, st.o, mobj), bootstrapData))

\* ReconcileMachine, the status written once the VM is running.
RunningStatus(o, ecObj, vm) ==
  [o EXCEPT !.Spec.ProviderID = ProviderIDOf(ecObj, o.Name),
            !.Status.Ready = TRUE,
            !.Status.Addresses =
               << [Type |-> "InternalIP", Address |-> vm.PrivateIPv4Address],
                  [Type |-> "ExternalIP", Address |-> vm.PublicIPv4Address] >>]

\* ReconcileMachine, the mid-pass patch through its own patch helper: on
\* success the store holds the object with the status just written.
PatchMachineStatus(st, fault, o1) ==
  IF fault # Len(st.calls) + 1
  THEN [st EXCEPT !.calls = Append(@, Call("patch", "EvrocMachine", o1.Name, "ok")),
                  !.o = o1,
                  !.committed = [st.committed EXCEPT !.Spec = o1.Spec, !.Status = o1.Status]]
  ELSE [st EXCEPT !.calls = Append(@, Call("patch", "EvrocMachine", o1.Name, "error")),
                  !.o = o1,
                  !.err = TRUE]

\* Variant: the status is written whatever the VM reports.
CheckVMRunning_AnyStatus(st, fault, ecObj) ==
  IF st.err THEN st
  ELSE PatchMachineStatus([st EXCEPT !.seen = st.cloud.vms[st.o.Name].Status], fault,
                          RunningStatus(st.o, ecObj, st.cloud.vms[st.o.Name]))

\* ReconcileMachine, after the VM is fetched or created: return nil while it
\* is not running, else write and patch the status.
CheckVMRunning(st, fault, ecObj) ==
  IF st.err THEN st
  ELSE IF st.cloud.vms[st.o.Name].Status # "Running"
  THEN [st EXCEPT !.seen = st.cloud.vms[st.o.Name].Status]
  ELSE PatchMachineStatus([st EXCEPT !.seen = "Running"], fault,
                          RunningStatus(st.o, ecObj, st.cloud.vms[st.o.Name]))

\* ReconcileMachine: PublicIP (if requested), boot disk, VM, status.
ReconcileMachine(st, fault, ecObj, mobj, bootstrapData) ==
  Then(ReconcileMachinePublicIP(st, fault, ecObj, mobj), LAMBDA s1 :
    Then(ReconcileBootDisk(s1, fault), LAMBDA s2 :
      Then(ReconcileVM(s2, fault, ecObj, mobj, bootstrapData), LAMBDA s3 :
        CheckVMRunning(s3, fault, ecObj))))

\* Variant: the PublicIP deleted is the one a control-plane machine used,
\* the cluster's.
DeleteMachinePublicIP_UsedByVM(st, inj) ==
  IF st.err \/ ~st.o.Spec.PublicIP THEN st
  ELSE Tolerating(Delete(st, inj[3], "PublicIP", ControlPlanePublicIPNameOf(st.cluster)),
                  {"ok", "notfound"})

\* DeleteMachine, the per-machine PublicIP, when one was requested.
DeleteMachinePublicIP(st, inj) ==
  IF st.err \/ ~st.o.Spec.PublicIP THEN st
  ELSE Tolerating(Delete(st, inj[3], "PublicIP", MachinePublicIPNameOf(st.o)),
                  {"ok", "notfound"})

\* Variant: the answer to the disk delete is not looked at.
DeleteBootDisk_Unchecked(st, inj) ==
  IF st.err THEN st ELSE Delete(st, inj[2], "Disk", BootDiskNameOf(st.o))

\* DeleteMachine, the boot disk.
DeleteBootDisk(st, inj) ==
  IF st.err THEN st
  ELSE Tolerating(Delete(st, inj[2], "Disk", BootDiskNameOf(st.o)), {"ok", "notfound"})

\* DeleteMachine, the VM.
DeleteVM(st, inj) ==
  Tolerating(Delete(st, inj[1], "VM", st.o.Name), {"ok", "notfound"})

\* Variant: the boot disk is deleted before the VM that uses it.
DeleteMachine_DiskFirst(st, inj) ==
  Then(Then(Then(st, LAMBDA s : DeleteBootDisk(s, inj)),
            LAMBDA s : IF s.err THEN s ELSE DeleteVM(s, inj)),
       LAMBDA s : DeleteMachinePublicIP(s, inj))

\* DeleteMachine: the VM, then the boot disk, then the per-machine PublicIP;
\* only not-found is tolerated.
DeleteMachine(st, inj) ==
  Then(Then(Then(st, LAMBDA s : DeleteVM(s, inj)),
            LAMBDA s : DeleteBootDisk(s, inj)),
       LAMBDA s : DeleteMachinePublicIP(s, inj))

(* -------------------------- EvrocMachine reconciler -------------------- *)

\* The EvrocMachine as created by the operator or the Machine controller.
NewEvrocMachine(publicIP) ==
  [Name |-> MachineName,
   Exists |-> TRUE,
   Finalizer |-> FALSE,
   DeletionTimestamp |-> FALSE,
   OwnerRef |-> FALSE,
   Spec |-> [PublicIP |-> publicIP, ProviderID |-> ""],
   Status |-> [Ready |-> FALSE, Addresses |-> <<>>],
   Conditions |-> [Ready |-> CondUnset, VMReady |-> CondUnset,
                   BootstrapDataReady |-> CondUnset]]

\* getBootstrapData: "notfound", "error" (no `value` key) or the data.
getBootstrapData(secret) ==
  IF secret = "absent" THEN [err |-> "notfound", data |-> ""]
  ELSE IF secret = "novalue" THEN [err |-> "error", data |-> ""]
  ELSE [err |-> "", data |-> secret]

\* Variant: waits with the delay of the transient-error classifier.
Wait_TransientDelay(st, path) ==
  [st EXCEPT !.requeueAfter = TransientRetryDelay, !.path = path]

\* A return with the fixed requeue delay and no error.
Wait(st, path) == [st EXCEPT !.requeueAfter = BootstrapDataRetryDelay, !.path = path]

\* Variant: the cluster's infrastructure is not looked at.
CheckInfrastructureReady_Skipped(st, cobj) == st

\* reconcileNormal of the machine: wait for the cluster infrastructure.
CheckInfrastructureReady(st, cobj) ==
  IF Returned(st) \/ cobj.InfrastructureReady THEN st
  ELSE Wait([st EXCEPT !.o.Conditions.Ready = "WaitingForClusterInfrastructure"],
            "waitinfra")

\* reconcileNormal of the machine: wait for the bootstrap reference.
CheckDataSecretName(st, cobj, mobj) ==
  IF Returned(st) \/ mobj.DataSecretName THEN st
  ELSE IF ~mobj.IsControlPlane /\ ~cobj.ControlPlaneInitialized
  THEN Wait([st EXCEPT !.o.Conditions.Ready = "WaitingForControlPlane"],
            "waitcontrolplane")
  ELSE Wait([st EXCEPT !.o.Conditions.BootstrapDataReady = "WaitingForBootstrapData"],
            "waitbootstrap")

\* Variant: a failed read of the bootstrap data is recorded but does not
\* end the pass.
CheckBootstrapData_GoesOn(st, b) ==
  IF Returned(st) THEN st
  ELSE IF b.err # ""
  THEN [st EXCEPT !.o.Conditions.BootstrapDataReady = "BootstrapDataUnavailable"]
  ELSE [st EXCEPT !.o.Conditions.BootstrapDataReady = CondTrue]

\* Variant: every failure to read the bootstrap data is waited on as if the
\* secret were not found.
CheckBootstrapData_AllNotFound(st, b) ==
  IF Returned(st) THEN st
  ELSE IF b.err # ""
  THEN Wait([st EXCEPT !.o.Conditions.BootstrapDataReady = "BootstrapDataSecretNotFound"],
            "waitsecret")
  ELSE [st EXCEPT !.o.Conditions.BootstrapDataReady = CondTrue]

\* reconcileNormal of the machine: fetch the bootstrap data.
CheckBootstrapData(st, b) ==
  IF Returned(st) THEN st
  ELSE IF b.err = "notfound"
  THEN Wait([st EXCEPT !.o.Conditions.BootstrapDataReady = "BootstrapDataSecretNotFound"],
            "waitsecret")
  ELSE IF b.err # ""
  THEN [st EXCEPT !.o.Conditions.BootstrapDataReady = "BootstrapDataUnavailable",
                  !.o.Conditions.Ready = "BootstrapDataNotReady",
                  !.err = TRUE, !.path = "bootstraperror"]
  ELSE [st EXCEPT !.o.Conditions.BootstrapDataReady = CondTrue]

\* reconcileNormal of the machine, after ReconcileMachine.
AfterReconcileMachine(st) ==
  IF st.err
  THEN [st EXCEPT !.o.Conditions.VMReady = "VMReconciliationFailed",
                  !.o.Conditions.Ready = "VMNotReady",
                  !.path = "vmerror"]
  ELSE [st EXCEPT !.o.Conditions.VMReady = CondTrue,
                  !.o.Conditions.Ready = CondTrue,
                  !.o.Status.Ready = TRUE,
                  !.path = "ready"]

MachineProvision(st, fault, ecObj, mobj, b) ==
  IF Returned(st) THEN st
  ELSE Then(ReconcileMachine(st, fault, ecObj, mobj, b.data),
            LAMBDA s : AfterReconcileMachine(s))

\* EvrocMachineReconciler.reconcileNormal.
MachineReconcileNormal(st, fault, cobj, mobj, ecObj, secret) ==
  Then(EnsureFinalizer(st), LAMBDA s1 :
    Then(CheckInfrastructureReady(s1, cobj), LAMBDA s2 :
      Then(CheckDataSecretName(s2, cobj, mobj), LAMBDA s3 :
        Then(CheckBootstrapData(s3, getBootstrapData(secret)), LAMBDA s4 :
          MachineProvision(s4, fault, ecObj, mobj, getBootstrapData(secret))))))

\* EvrocMachineReconciler.reconcileDelete.
MachineReconcileDelete(st, inj) ==
  Then(DeleteMachine(st, inj), LAMBDA s : RemoveFinalizerUnlessError(s))

\* Variant: a Cluster that cannot be resolved does not stop the pass.
MachineNoopPath_ClusterUnchecked ==
  IF ~em.Exists THEN "notfound"
  ELSE IF ~em.OwnerRef THEN "noowner"
  ELSE IF ~ec.Exists THEN "noevroccluster"
  ELSE IF cluster.Paused THEN "paused"
  ELSE ""

\* Reconcile, exits before the patch helper exists: the EvrocMachine is gone,
\* has no owner Machine, the Cluster named by the Machine's label cannot be
\* resolved, its EvrocCluster cannot be fetched, or the Cluster is paused.
MachineNoopPath ==
  IF ~em.Exists THEN "notfound"
  ELSE IF ~em.OwnerRef THEN "noowner"
  ELSE IF ~machine.ClusterLabel THEN "nocluster"
  ELSE IF ~ec.Exists THEN "noevroccluster"
  ELSE IF cluster.Paused THEN "paused"
  ELSE ""

EvrocMachineReconcileNoop ==
  /\ Idle /\ focus = "EvrocMachine"
  /\ MachineNoopPath # ""
  /\ pass' = PassRecord("machine", MachineNoopPath, em, em, <<>>, 0, FALSE, FALSE,
                        "", NoEndpoint)
  /\ UNCHANGED <<focus, identitySecret, cluster, ec, machine, bootstrapSecret, em, cloud>>

\* Variant: no IsNotFoundError branch, a missing secret is returned as an
\* error like every other failure of evroc.New.
EvrocMachineReconcileNoSecret_AsError ==
  /\ Idle /\ focus = "EvrocMachine"
  /\ MachineNoopPath = "" /\ ~identitySecret
  /\ \E patchFails \in BOOLEAN, answer \in {"notfound", "error"} :
       /\ pass' = PassRecord("machine",
                             IF answer = "notfound" THEN "nosecret" ELSE "clienterror",
                             em, em, <<>>, 0, TRUE, ~patchFails, "", NoEndpoint)
  /\ UNCHANGED <<focus, identitySecret, cluster, ec, machine, bootstrapSecret, em, cloud>>

\* Reconcile, evroc.New fails: no secret that yields a client.  Identity
\* secret not found: requeue, no error.  Any other failure: the wrapped
\* error is returned.  Either way the deferred patch runs on an unchanged
\* object.
EvrocMachineReconcileNoSecret ==
  /\ Idle /\ focus = "EvrocMachine"
  /\ MachineNoopPath = "" /\ ~identitySecret
  /\ \E patchFails \in BOOLEAN, answer \in {"notfound", "error"} :
       /\ pass' = IF answer = "notfound"
                  THEN PassRecord("machine", "nosecret", em, em, <<>>,
                                  BootstrapDataRetryDelay, patchFails, ~patchFails,
                                  "", NoEndpoint)
                  ELSE PassRecord("machine", "clienterror", em, em, <<>>, 0, TRUE,
                                  ~patchFails, "", NoEndpoint)
  /\ UNCHANGED <<focus, identitySecret, cluster, ec, machine, bootstrapSecret, em, cloud>>

\* Commit of a machine pass: the provider's state, the EvrocMachine as
\* patched (when the deferred patch fails, what the mid-pass patch wrote
\* stays), and the pass record.
CommitMachinePass(st, patchFails) ==
  /\ cloud' = st.cloud
  /\ em' = IF patchFails THEN st.committed ELSE st.o
  /\ pass' = Finish("machine", em, st, patchFails)

\* Reconcile with a deletion timestamp: reconcileDelete, then the deferred
\* patch; the provider answers each delete from answers, the patch fails or
\* not as patches allows.
EvrocMachineDeletePass(answers, patches) ==
  /\ Idle /\ focus = "EvrocMachine"
  /\ MachineNoopPath = "" /\ identitySecret /\ DeletionRequested(em)
  /\ \E inj \in [1..3 -> answers], patchFails \in patches :
       \E st \in {MachineReconcileDelete(Begin(cloud, em, cluster), inj)} :
         CommitMachinePass(st, patchFails)
  /\ UNCHANGED <<focus, identitySecret, cluster, ec, machine, bootstrapSecret>>

EvrocMachineReconcileDelete == EvrocMachineDeletePass(DeleteAnswers, BOOLEAN)

\* The same pass against a provider that answers every delete with success
\* or not-found, and an API server that accepts the patch.
EvrocMachineReconcileDeleteAnswered == EvrocMachineDeletePass({"none"}, {FALSE})

\* Calls of the longest machine pass: three get-or-create pairs and the
\* status patch.
MaxMachineCalls == 2 * 3 + 1

\* Reconcile without a deletion timestamp: reconcileNormal, then the deferred patch.
EvrocMachineNormalPass(faults, patches) ==
  /\ Idle /\ focus = "EvrocMachine"
  /\ MachineNoopPath = "" /\ identitySecret /\ ~DeletionRequested(em)
  /\ \E fault \in faults, patchFails \in patches :
       CommitMachinePass(
         MachineReconcileNormal(Begin(cloud, em, cluster), fault, cluster, machine, ec,
                                bootstrapSecret),
         patchFails)
  /\ UNCHANGED <<focus, identitySecret, cluster, ec, machine, bootstrapSecret>>

EvrocMachineReconcileNormal ==
  EvrocMachineNormalPass((-MaxMachineCalls)..MaxMachineCalls, BOOLEAN)

\* The same pass when every request is answered and the patch is accepted.
EvrocMachineReconcileNormalAnswered == EvrocMachineNormalPass({0}, {FALSE})

(* --------------------------- the environment --------------------------- *)

\* The operator creates the identity secret, with a kubeconfig that loads.
CreateIdentitySecret ==
  /\ Idle /\ ~identitySecret
  /\ identitySecret' = TRUE
  /\ UNCHANGED <<focus, cluster, ec, machine, bootstrapSecret, em, cloud, pass>>

\* The operator deletes the identity secret or replaces it by one that
\* yields no client (nothing owns or protects it).
DeleteIdentitySecret ==
  /\ Idle /\ identitySecret
  /\ identitySecret' = FALSE
  /\ UNCHANGED <<focus, cluster, ec, machine, bootstrapSecret, em, cloud, pass>>

\* The operator pauses or resumes the Cluster.
TogglePaused ==
  /\ Idle
  /\ cluster' = [cluster EXCEPT !.Paused = ~@]
  /\ UNCHANGED <<focus, identitySecret, ec, machine, bootstrapSecret, em, cloud, pass>>

\* The provider allocates an address to a PublicIP that has none.
AllocateAddress ==
  /\ Idle
  /\ \E name \in DOMAIN cloud.publicIPs, a \in Addresses :
       /\ cloud.publicIPs[name] = ""
       /\ cloud' = [cloud EXCEPT !.publicIPs[name] = a]
  /\ UNCHANGED <<focus, identitySecret, cluster, ec, machine, bootstrapSecret, em, pass>>

\* The Cluster controller sets the owner reference on the EvrocCluster.
SetClusterOwnerRef ==
  /\ Idle /\ focus = "EvrocCluster"
  /\ ec.Exists /\ ~ec.OwnerRef
  /\ ec' = [ec EXCEPT !.OwnerRef = TRUE]
  /\ UNCHANGED <<focus, identitySecret, cluster, machine, bootstrapSecret, em, cloud, pass>>

\* The EvrocCluster is deleted through the API: the deletion timestamp is set.
DeleteEvrocCluster ==
  /\ Idle /\ focus = "EvrocCluster"
  /\ ec.Exists /\ ~ec.DeletionTimestamp
  /\ ec' = [ec EXCEPT !.DeletionTimestamp = TRUE]
  /\ UNCHANGED <<focus, identitySecret, cluster, machine, bootstrapSecret, em, cloud, pass>>

\* The store removes a deleted EvrocCluster once no finalizer holds it.
RemoveEvrocCluster ==
  /\ Idle /\ focus = "EvrocCluster"
  /\ ec.Exists /\ ec.DeletionTimestamp /\ ~ec.Finalizer
  /\ ec' = [ec EXCEPT !.Exists = FALSE]
  /\ UNCHANGED <<focus, identitySecret, cluster, machine, bootstrapSecret, em, cloud, pass>>

\* The Cluster controller copies the EvrocCluster's readiness to the Cluster.
SyncInfrastructureReady ==
  /\ Idle /\ focus = "EvrocCluster"
  /\ ec.Exists /\ ec.OwnerRef /\ ec.Status.Ready /\ ~cluster.InfrastructureReady
  /\ cluster' = [cluster EXCEPT !.InfrastructureReady = TRUE]
  /\ UNCHANGED <<focus, identitySecret, ec, machine, bootstrapSecret, em, cloud, pass>>

\* Seen from the machine side, the EvrocCluster controller has created the
\* control-plane PublicIP and recorded its name in the cluster status.
EvrocClusterRecordsPublicIP ==
  /\ Idle /\ focus = "EvrocMachine"
  /\ ec.Exists /\ ec.Status.ControlPlanePublicIPName = ""
  /\ ec' = [ec EXCEPT !.Status.ControlPlanePublicIPName = ControlPlanePublicIPNameOf(ec)]
  /\ cloud' = [cloud EXCEPT !.publicIPs =
                 IF ControlPlanePublicIPNameOf(ec) \in DOMAIN @ THEN @
                 ELSE Put(@, ControlPlanePublicIPNameOf(ec), "")]
  /\ UNCHANGED <<focus, identitySecret, cluster, machine, bootstrapSecret, em, pass>>

\* Seen from the machine side, the Cluster reports its infrastructure ready.
ClusterInfrastructureReady ==
  /\ Idle /\ focus = "EvrocMachine"
  /\ ~cluster.InfrastructureReady
  /\ cluster' = [cluster EXCEPT !.InfrastructureReady = TRUE]
  /\ UNCHANGED <<focus, identitySecret, ec, machine, bootstrapSecret, em, cloud, pass>>

\* Seen from the machine side, the EvrocCluster has been deleted and removed.
EvrocClusterGone ==
  /\ Idle /\ focus = "EvrocMachine"
  /\ ec.Exists
  /\ ec' = [ec EXCEPT !.Exists = FALSE]
  /\ UNCHANGED <<focus, identitySecret, cluster, machine, bootstrapSecret, em, cloud, pass>>

\* The Machine controller sets the owner reference on the EvrocMachine.
SetMachineOwnerRef ==
  /\ Idle /\ focus = "EvrocMachine"
  /\ em.Exists /\ ~em.OwnerRef
  /\ em' = [em EXCEPT !.OwnerRef = TRUE]
  /\ UNCHANGED <<focus, identitySecret, cluster, ec, machine, bootstrapSecret, cloud, pass>>

\* The Machine's cluster-name label comes to name a Cluster that exists.
SetClusterNameLabel ==
  /\ Idle /\ focus = "EvrocMachine"
  /\ ~machine.ClusterLabel
  /\ machine' = [machine EXCEPT !.ClusterLabel = TRUE]
  /\ UNCHANGED <<focus, identitySecret, cluster, ec, bootstrapSecret, em, cloud, pass>>

\* The bootstrap provider writes the bootstrap-data secret, well-formed or not.
CreateBootstrapSecret ==
  /\ Idle /\ focus = "EvrocMachine"
  /\ bootstrapSecret = "absent"
  /\ bootstrapSecret' \in BootstrapPayloads \cup {"novalue"}
  /\ UNCHANGED <<focus, identitySecret, cluster, ec, machine, em, cloud, pass>>

\* The Machine controller sets Spec.Bootstrap.DataSecretName.
SetDataSecretName ==
  /\ Idle /\ focus = "EvrocMachine"
  /\ ~machine.DataSecretName
  /\ machine' = [machine EXCEPT !.DataSecretName = TRUE]
  /\ UNCHANGED <<focus, identitySecret, cluster, ec, bootstrapSecret, em, cloud, pass>>

\* The control plane reports itself initialized.
ControlPlaneInitialized ==
  /\ Idle /\ focus = "EvrocMachine"
  /\ ~cluster.ControlPlaneInitialized
  /\ cluster' = [cluster EXCEPT !.ControlPlaneInitialized = TRUE]
  /\ UNCHANGED <<focus, identitySecret, ec, machine, bootstrapSecret, em, cloud, pass>>

PublicAddressOf(cl, ref) == IF ref \in DOMAIN cl.publicIPs THEN cl.publicIPs[ref] ELSE ""

\* The provider moves a VM through its lifecycle: "" -> Provisioning -> Running;
\* a running VM reports its addresses.
VMProgress ==
  /\ Idle
  /\ \E name \in DOMAIN cloud.vms :
       LET vm == cloud.vms[name] IN
       \/ /\ vm.Status = ""
          /\ cloud' = [cloud EXCEPT !.vms[name].Status = "Provisioning"]
       \/ /\ vm.Status = "Provisioning"
          /\ cloud' = [cloud EXCEPT !.vms[name] =
                         [vm EXCEPT !.Status = "Running",
                                    !.PrivateIPv4Address = PrivateAddress,
                                    !.PublicIPv4Address = PublicAddressOf(cloud, vm.PublicIPRef)]]
  /\ UNCHANGED <<focus, identitySecret, cluster, ec, machine, bootstrapSecret, em, pass>>

\* The EvrocMachine is deleted through the API: the deletion timestamp is set.
DeleteEvrocMachine ==
  /\ Idle /\ focus = "EvrocMachine"
  /\ em.Exists /\ ~em.DeletionTimestamp
  /\ em' = [em EXCEPT !.DeletionTimestamp = TRUE]
  /\ UNCHANGED <<focus, identitySecret, cluster, ec, machine, bootstrapSecret, cloud, pass>>

\* The store removes a deleted EvrocMachine once no finalizer holds it.
RemoveEvrocMachine ==
  /\ Idle /\ focus = "EvrocMachine"
  /\ em.Exists /\ em.DeletionTimestamp /\ ~em.Finalizer
  /\ em' = [em EXCEPT !.Exists = FALSE]
  /\ UNCHANGED <<focus, identitySecret, cluster, ec, machine, bootstrapSecret, cloud, pass>>

(* ------------------------------- Init ---------------------------------- *)

EmptyCloud ==
  [vpcs |-> {}, subnets |-> <<>>, publicIPs |-> <<>>, disks |-> <<>>, vms |-> <<>>]

\* The objects as the operator created them, nothing provisioned yet.
Init ==
  /\ focus \in {"EvrocCluster", "EvrocMachine"}
  /\ identitySecret = FALSE
  /\ cluster = [Name |-> ClusterName, Paused |-> FALSE, InfrastructureReady |-> FALSE,
                ControlPlaneInitialized |-> FALSE, ControlPlaneEndpoint |-> NoEndpoint]
  /\ \E v \in VPCNameChoices : ec = NewEvrocCluster(v, MaxSubnets)
  /\ \E cp \in BOOLEAN : machine = [IsControlPlane |-> cp, DataSecretName |-> FALSE,
                                    ClusterLabel |-> (focus = "EvrocCluster")]
  /\ bootstrapSecret = "absent"
  /\ \E ip \in BOOLEAN : em = NewEvrocMachine(ip)
  /\ focus = "EvrocMachine" => ec.Spec.VPCName = ""
  /\ focus = "EvrocCluster" => machine.IsControlPlane /\ em.Spec.PublicIP
  /\ cloud = EmptyCloud
  /\ pass = NoPass

Next ==
  \/ PassReturns
  \/ EvrocClusterReconcileNoop
  \/ EvrocClusterReconcileNoSecret
  \/ EvrocClusterReconcileDelete
  \/ EvrocClusterReconcileNormal
  \/ EvrocMachineReconcileNoop
  \/ EvrocMachineReconcileNoSecret
  \/ EvrocMachineReconcileDelete
  \/ EvrocMachineReconcileNormal
  \/ CreateIdentitySecret
  \/ DeleteIdentitySecret
  \/ TogglePaused
  \/ AllocateAddress
  \/ SetClusterOwnerRef
  \/ DeleteEvrocCluster
  \/ RemoveEvrocCluster
  \/ SyncInfrastructureReady
  \/ EvrocClusterRecordsPublicIP
  \/ ClusterInfrastructureReady
  \/ EvrocClusterGone
  \/ SetMachineOwnerRef
  \/ SetClusterNameLabel
  \/ CreateBootstrapSecret
  \/ SetDataSecretName
  \/ ControlPlaneInitialized
  \/ VMProgress
  \/ DeleteEvrocMachine
  \/ RemoveEvrocMachine

Spec == Init /\ [][Next]_vars

(* ------------- the Service's functions, called in succession ----------- *)

\* The functions of the network Service called one after the other on the
\* same EvrocCluster, against a store that keeps what was created and may
\* fail one request of an invocation.  The log (pass.calls) holds, for every
\* invocation, a mark, the calls it issued and what it returned.
Invocations == Cardinality({i \in DOMAIN pass.calls : pass.calls[i].op = "invoke"})

Invoked(fn) ==
  [Begin(cloud, ec, cluster) EXCEPT !.calls = Append(pass.calls, Call("invoke", fn, "", ""))]

\* The request of the next invocation that fails: none (0), or its k-th.
InvocationFaults(most) == {0} \cup {Len(pass.calls) + 1 + k : k \in 1..most}

ServiceReturns(fn, st, name, res) ==
  /\ cloud' = st.cloud
  /\ ec' = st.o
  /\ pass' = PassRecord("service", fn, ec, st.o,
                        Append(st.calls, Call("return", fn, name, res)),
                        0, st.err, FALSE, res, NoEndpoint)

InvokeReconcileNetwork ==
  /\ focus = "Service" /\ Invocations < MaxInvocations
  /\ \E fault \in InvocationFaults(2 + 2 * MaxSubnets) :
     \E st \in {ReconcileNetwork(Invoked("ReconcileNetwork"), fault)} :
       ServiceReturns("ReconcileNetwork", st, "", IF st.err THEN "error" ELSE "")
  /\ UNCHANGED <<focus, identitySecret, cluster, machine, bootstrapSecret, em>>

InvokeReconcileControlPlanePublicIP ==
  /\ focus = "Service" /\ Invocations < MaxInvocations
  /\ \E fault \in InvocationFaults(3) :
     \E st \in {ReconcileControlPlanePublicIP(Invoked("ReconcileControlPlanePublicIP"), fault)} :
       ServiceReturns("ReconcileControlPlanePublicIP", st,
                      PublicIPNameOf(st), PublicIPAddressOf(st))
  /\ UNCHANGED <<focus, identitySecret, cluster, machine, bootstrapSecret, em>>

\* The provider allocates an address to a PublicIP that has none.
ProviderAllocatesAddress ==
  /\ focus = "Service"
  /\ \E name \in DOMAIN cloud.publicIPs, a \in Addresses :
       /\ cloud.publicIPs[name] = ""
       /\ cloud' = [cloud EXCEPT !.publicIPs[name] = a]
  /\ UNCHANGED <<focus, identitySecret, cluster, ec, machine, bootstrapSecret, em, pass>>

\* Any declared network, any part of it already at the provider (a restart,
\* or resources shared with another cluster).
ServiceInit ==
  /\ focus = "Service"
  /\ identitySecret = TRUE
  /\ cluster = [Name |-> ClusterName, Paused |-> FALSE, InfrastructureReady |-> FALSE,
                ControlPlaneInitialized |-> FALSE, ControlPlaneEndpoint |-> NoEndpoint]
  /\ \E v \in VPCNameChoices, n \in 0..MaxSubnets : ec = NewEvrocCluster(v, n)
  /\ machine = [IsControlPlane |-> TRUE, DataSecretName |-> FALSE, ClusterLabel |-> TRUE]
  /\ bootstrapSecret = "absent"
  /\ em = NewEvrocMachine(TRUE)
  /\ \E vs \in SUBSET {VPCNameOf(ec)},
        ss \in SUBSET {ec.Spec.Subnets[i].Name : i \in DOMAIN ec.Spec.Subnets},
        ips \in SUBSET {ControlPlanePublicIPNameOf(ec)},
        a \in Addresses \cup {""} :
       cloud = [EmptyCloud EXCEPT !.vpcs = vs,
                                  !.subnets = [x \in ss |-> TRUE],
                                  !.publicIPs = [x \in ips |-> a]]
  /\ pass = NoPass

ServiceNext ==
  \/ InvokeReconcileNetwork
  \/ InvokeReconcileControlPlanePublicIP
  \/ ProviderAllocatesAddress

ServiceSpec == ServiceInit /\ [][ServiceNext]_vars

\* The cluster controller with an unpaused Cluster, a provider whose deletes
\* answer success, not-found or forbidden, and a work queue that runs a pass
\* for every object it holds and retries a pass that returned an error.
DeletionInit == Init /\ focus = "EvrocCluster"

DeletionNext ==
  \/ PassReturns
  \/ EvrocClusterReconcileNoop
  \/ EvrocClusterReconcileNoSecret
  \/ EvrocClusterReconcileDeleteAnswered
  \/ EvrocClusterReconcileNormal
  \/ CreateIdentitySecret
  \/ AllocateAddress
  \/ SetClusterOwnerRef
  \/ DeleteEvrocCluster
  \/ RemoveEvrocCluster
  \/ SyncInfrastructureReady

DeletionSpec ==
  /\ DeletionInit /\ [][DeletionNext]_vars
  /\ WF_vars(PassReturns)
  /\ WF_vars(EvrocClusterReconcileDeleteAnswered)

(* --------------- provisioning of a machine, pass by pass --------------- *)

\* The machine controller watches the EvrocMachine only (SetupWithManager:
\* For(&EvrocMachine{})).  A pass is due again when it returned an error or
\* a requeue delay, or when it changed the stored EvrocMachine; otherwise
\* the worker waits for the next change of the EvrocMachine.
PassRequeues == pass.err \/ pass.requeueAfter > 0 \/ em # pass.before

PassReturnsToQueue ==
  /\ ~Idle /\ focus = "EvrocMachine"
  /\ pass' = NoPass
  /\ focus' = IF PassRequeues THEN "EvrocMachine" ELSE "EvrocMachineWaiting"
  /\ UNCHANGED <<identitySecret, cluster, ec, machine, bootstrapSecret, em, cloud>>

\* While the worker waits, the Machine controller sets the owner reference:
\* a change of the EvrocMachine, so a pass is due.
OwnerRefSetWhileWaiting ==
  /\ Idle /\ focus = "EvrocMachineWaiting"
  /\ em.Exists /\ ~em.OwnerRef
  /\ em' = [em EXCEPT !.OwnerRef = TRUE]
  /\ focus' = "EvrocMachine"
  /\ UNCHANGED <<identitySecret, cluster, ec, machine, bootstrapSecret, cloud, pass>>

\* An EvrocCluster with one subnet and an EvrocMachine that requests a
\* public IP, just created.
ProvisioningInit ==
  /\ focus = "EvrocMachine"
  /\ identitySecret = FALSE
  /\ cluster = [Name |-> ClusterName, Paused |-> FALSE, InfrastructureReady |-> FALSE,
                ControlPlaneInitialized |-> FALSE, ControlPlaneEndpoint |-> NoEndpoint]
  /\ ec = NewEvrocCluster("", 1)
  /\ \E cp \in BOOLEAN :
       machine = [IsControlPlane |-> cp, DataSecretName |-> FALSE, ClusterLabel |-> FALSE]
  /\ bootstrapSecret = "absent"
  /\ em = NewEvrocMachine(TRUE)
  /\ cloud = EmptyCloud
  /\ pass = NoPass

ProvisioningNext ==
  \/ PassReturnsToQueue
  \/ EvrocMachineReconcileNoop
  \/ EvrocMachineReconcileNoSecret
  \/ EvrocMachineReconcileNormalAnswered
  \/ OwnerRefSetWhileWaiting
  \/ CreateIdentitySecret
  \/ AllocateAddress
  \/ EvrocClusterRecordsPublicIP
  \/ ClusterInfrastructureReady
  \/ SetMachineOwnerRef
  \/ SetClusterNameLabel
  \/ CreateBootstrapSecret
  \/ SetDataSecretName
  \/ ControlPlaneInitialized
  \/ VMProgress

\* The work queue hands every due pass to the worker, and every pass returns.
ProvisioningSpec ==
  /\ ProvisioningInit /\ [][ProvisioningNext]_vars
  /\ WF_vars(PassReturnsToQueue)
  /\ WF_vars(EvrocMachineReconcileNoop)
  /\ WF_vars(EvrocMachineReconcileNoSecret)
  /\ WF_vars(EvrocMachineReconcileNormalAnswered)

(* ---------- deletion of a machine, its cluster deleted or not ---------- *)

\* The machine controller from the creation of the EvrocMachine to its
\* deletion, with a worker that runs a pass for the EvrocMachine again and
\* again (whatever the last pass returned), an API server and a provider that
\* answer, and an EvrocCluster that may be deleted and removed at any moment.
MachineDeletionNext ==
  \/ PassReturns
  \/ EvrocMachineReconcileNoop
  \/ EvrocMachineReconcileNormalAnswered
  \/ EvrocMachineReconcileDeleteAnswered
  \/ CreateIdentitySecret
  \/ AllocateAddress
  \/ EvrocClusterRecordsPublicIP
  \/ ClusterInfrastructureReady
  \/ EvrocClusterGone
  \/ SetMachineOwnerRef
  \/ SetClusterNameLabel
  \/ CreateBootstrapSecret
  \/ SetDataSecretName
  \/ ControlPlaneInitialized
  \/ VMProgress
  \/ DeleteEvrocMachine
  \/ RemoveEvrocMachine

\* Every pass returns, and a pass that is due again and again is run: the
\* exit before the patch helper, and the deletion pass with every request
\* answered.
MachineDeletionSpec ==
  /\ ProvisioningInit /\ [][MachineDeletionNext]_vars
  /\ WF_vars(PassReturns)
  /\ SF_vars(EvrocMachineReconcileNoop)
  /\ SF_vars(EvrocMachineReconcileDeleteAnswered)

(* --------------- provisioning of a cluster, pass by pass --------------- *)

\* The cluster controller watches the EvrocCluster only (SetupWithManager:
\* For(&EvrocCluster{})).  A pass is due again when it returned an error or a
\* requeue delay, or when it changed the stored EvrocCluster; otherwise the
\* worker waits for the next change of the EvrocCluster.
ClusterPassReturnsToQueue ==
  /\ ~Idle /\ focus = "EvrocCluster"
  /\ pass' = NoPass
  /\ focus' = IF pass.err \/ pass.requeueAfter > 0 \/ ec # pass.before
              THEN "EvrocCluster" ELSE "EvrocClusterWaiting"
  /\ UNCHANGED <<identitySecret, cluster, ec, machine, bootstrapSecret, em, cloud>>

\* While the worker waits, the Cluster controller sets the owner reference:
\* a change of the EvrocCluster, so a pass is due.
ClusterOwnerRefSetWhileWaiting ==
  /\ Idle /\ focus = "EvrocClusterWaiting"
  /\ ec.Exists /\ ~ec.OwnerRef
  /\ ec' = [ec EXCEPT !.OwnerRef = TRUE]
  /\ focus' = "EvrocCluster"
  /\ UNCHANGED <<identitySecret, cluster, machine, bootstrapSecret, em, cloud, pass>>

ClusterProvisioningNext ==
  \/ ClusterPassReturnsToQueue
  \/ EvrocClusterReconcileNoSecret
  \/ EvrocClusterReconcileNormal
  \/ EvrocClusterReconcileNormalAnswered
  \/ ClusterOwnerRefSetWhileWaiting
  \/ CreateIdentitySecret
  \/ AllocateAddress
  \/ SetClusterOwnerRef
  \/ SyncInfrastructureReady

\* An EvrocCluster that is neither paused nor deleted.  Every pass returns,
\* and of the passes the queue keeps handing to the worker some are answered
\* by the provider and the API server without failure.
ClusterProvisioningSpec ==
  /\ DeletionInit /\ [][ClusterProvisioningNext]_vars
  /\ WF_vars(ClusterPassReturnsToQueue)
  /\ SF_vars(EvrocClusterReconcileNormalAnswered)

(* ------------- the machine Service, called for several machines -------- *)

\* The machines of one cluster: two control-plane machines, both requesting
\* a public IP.
MachineNames == {"m1", "m2"}

\* The owner Machine of a machine of the cluster, its bootstrap data set.
FleetMachine(name) ==
  [IsControlPlane |-> (name \in MachineNames), DataSecretName |-> TRUE, ClusterLabel |-> TRUE]

\* The EvrocMachine of that name as the reconciler hands it to the Service.
FleetEvrocMachine(name) ==
  [NewEvrocMachine(TRUE) EXCEPT !.Name = name, !.Finalizer = TRUE, !.OwnerRef = TRUE]

\* Service.ReconcileMachine called for one of the machines, against the
\* provider as the earlier calls left it; one of its requests may fail.  The
\* record holds the provider's resources before and after the call.
InvokeReconcileMachine ==
  /\ Idle /\ focus = "MachineService"
  /\ \E name \in MachineNames, fault \in 0..MaxMachineCalls :
     \E st \in {ReconcileMachine(Begin(cloud, FleetEvrocMachine(name), cluster), fault, ec,
                                 FleetMachine(name), bootstrapSecret)} :
       /\ cloud' = st.cloud
       /\ em' = st.committed
       /\ machine' = FleetMachine(name)
       /\ pass' = PassRecord("service", "ReconcileMachine", cloud, st.cloud, st.calls,
                             0, st.err, FALSE, st.seen, NoEndpoint)
  /\ UNCHANGED <<focus, identitySecret, cluster, ec, bootstrapSecret>>

\* Service.DeleteMachine called for one of the machines.
InvokeDeleteMachine ==
  /\ Idle /\ focus = "MachineService"
  /\ \E name \in MachineNames, inj \in [1..3 -> {"none", "error"}] :
     \E st \in {DeleteMachine(Begin(cloud, FleetEvrocMachine(name), cluster), inj)} :
       /\ cloud' = st.cloud
       /\ em' = st.committed
       /\ machine' = FleetMachine(name)
       /\ pass' = PassRecord("service", "DeleteMachine", cloud, st.cloud, st.calls,
                             0, st.err, FALSE, st.seen, NoEndpoint)
  /\ UNCHANGED <<focus, identitySecret, cluster, ec, bootstrapSecret>>

\* The network Service called for the cluster of these machines:
\* ReconcileNetwork, ReconcileControlPlanePublicIP or DeleteNetwork.  The
\* stored EvrocCluster is written by the reconciler's patch, not here.
InvokeNetworkService ==
  /\ Idle /\ focus = "MachineService"
  /\ \E fault \in 0..MaxClusterCalls,
        inj \in [1..(Len(ec.Spec.Subnets) + 2) -> {"none", "forbidden"}] :
     \E fn \in {"ReconcileNetwork", "ReconcileControlPlanePublicIP", "DeleteNetwork"} :
     \E st \in {CASE fn = "ReconcileNetwork" ->
                       ReconcileNetwork(Begin(cloud, ec, cluster), fault)
                  [] fn = "ReconcileControlPlanePublicIP" ->
                       ReconcileControlPlanePublicIP(Begin(cloud, ec, cluster), fault)
                  [] fn = "DeleteNetwork" ->
                       DeleteNetwork(Begin(cloud, ec, cluster), inj)} :
       /\ fn = "DeleteNetwork" => fault = 0
       /\ fn # "DeleteNetwork" => \A i \in DOMAIN inj : inj[i] = "none"
       /\ cloud' = st.cloud
       /\ pass' = PassRecord("service", fn, cloud, st.cloud, st.calls,
                             0, st.err, FALSE, st.seen, NoEndpoint)
  /\ UNCHANGED <<focus, identitySecret, cluster, ec, machine, bootstrapSecret, em>>

\* The cluster's network is reconciled: the control-plane PublicIP exists,
\* with or without an address, and the EvrocCluster may have recorded its
\* name.  A subnet named like the declared one, and a disk and a VM named
\* like the second machine's, may exist already, made from other data.
MachineServiceInit ==
  /\ focus = "MachineService"
  /\ identitySecret = TRUE
  /\ cluster = [Name |-> ClusterName, Paused |-> FALSE, InfrastructureReady |-> TRUE,
                ControlPlaneInitialized |-> FALSE, ControlPlaneEndpoint |-> NoEndpoint]
  /\ \E recorded \in BOOLEAN :
       ec = [NewEvrocCluster("", 1) EXCEPT
               !.Finalizer = TRUE,
               !.Status.ControlPlanePublicIPName =
                  IF recorded THEN ControlPlanePublicIPNameOf(NewEvrocCluster("", 1)) ELSE ""]
  /\ machine = FleetMachine(MachineName)
  /\ bootstrapSecret = BootstrapPayload
  /\ em = FleetEvrocMachine(MachineName)
  /\ \E a \in Addresses \cup {""}, foreign \in BOOLEAN :
       cloud = [EmptyCloud EXCEPT
                  !.publicIPs = [x \in {ControlPlanePublicIPNameOf(ec)} |-> a],
                  !.subnets = [x \in (IF foreign THEN {"subnet-1"} ELSE {}) |->
                                 [VpcRef |-> "other-vpc", Block |-> "192.168.0.0/24"]],
                  !.disks = [x \in (IF foreign THEN {"m2-bootdisk"} ELSE {}) |-> "otherdisk"],
                  !.vms = [x \in (IF foreign THEN {"m2"} ELSE {}) |->
                             DesiredVM(FleetEvrocMachine("m2"), "other-publicip", "other")]]
  /\ pass = NoPass

MachineServiceNext ==
  \/ PassReturns
  \/ InvokeReconcileMachine
  \/ InvokeDeleteMachine
  \/ InvokeNetworkService
  \/ AllocateAddress
  \/ VMProgress

MachineServiceSpec == MachineServiceInit /\ [][MachineServiceNext]_vars

(* --------------------------- error classifier -------------------------- *)

\* An error value: its dynamic type (a plain error, a net.Error, an API
\* status error with its reason, or the error fmt.Errorf builds with %w),
\* its text as a sequence of fragments, and the error it wraps, if any.
NilError == [kind |-> "nil", reason |-> "", msg |-> <<>>, wraps |-> <<>>]

\* The fragments strings.Contains looks for in err.Error().
TransientPhrases ==
  {"timeout", "connection refused", "connection reset", "rate limit",
   "too many requests", "temporarily unavailable"}

Fragments == TransientPhrases \cup {"some other error", "forbidden"}

Messages == UNION {[1..k -> Fragments] : k \in 1..MaxFragments}

StatusReasons ==
  {"ServiceUnavailable", "Timeout", "ServerTimeout", "TooManyRequests",
   "Invalid", "BadRequest", "Forbidden", "Unauthorized", "NotFound", "Conflict",
   "AlreadyExists", "InternalError"}

ErrorValues ==
  {[kind |-> k, reason |-> "", msg |-> m, wraps |-> <<>>] :
     k \in {"plain", "net"}, m \in Messages}
  \cup {[kind |-> "status", reason |-> r, msg |-> m, wraps |-> <<>>] :
          r \in StatusReasons, m \in Messages}

\* strings.Contains(err.Error(), phrase).
Contains(msg, phrase) == \E i \in DOMAIN msg : msg[i] = phrase

\* Variant: rate-limit messages are not looked for.
IsTransientError_NoRateLimit(err) ==
  IF err = NilError THEN FALSE
  ELSE IF err.kind = "net" THEN TRUE
  ELSE IF Contains(err.msg, "timeout") THEN TRUE
  ELSE IF Contains(err.msg, "connection refused")
          \/ Contains(err.msg, "connection reset") THEN TRUE
  ELSE IF err.reason \in {"ServiceUnavailable", "Timeout", "ServerTimeout",
                          "TooManyRequests"} THEN TRUE
  ELSE IF Contains(err.msg, "temporarily unavailable") THEN TRUE
  ELSE FALSE

IsTransientError(err) ==
  IF err = NilError THEN FALSE
  ELSE IF err.kind = "net" THEN TRUE
  ELSE IF Contains(err.msg, "timeout") THEN TRUE
  ELSE IF Contains(err.msg, "connection refused")
          \/ Contains(err.msg, "connection reset") THEN TRUE
  ELSE IF Contains(err.msg, "rate limit")
          \/ Contains(err.msg, "too many requests") THEN TRUE
  ELSE IF err.reason \in {"ServiceUnavailable", "Timeout", "ServerTimeout",
                          "TooManyRequests"} THEN TRUE
  ELSE IF Contains(err.msg, "temporarily unavailable") THEN TRUE
  ELSE FALSE

IsTerminalError(err) ==
  IF err = NilError THEN FALSE
  ELSE IF err.reason \in {"Invalid", "BadRequest"} THEN TRUE
  ELSE IF err.reason \in {"Forbidden", "Unauthorized"} THEN TRUE
  ELSE IF err.reason = "NotFound" THEN TRUE
  ELSE IF err.reason = "Conflict" THEN TRUE
  ELSE FALSE

\* fmt.Errorf("%s: %w", errMsg, err): the text is errMsg, ": " and the text
\* of err; the API reason is still found through the wrapping.
Wrapf(errMsg, err) ==
  [kind |-> "wrapped", reason |-> err.reason,
   msg |-> <<errMsg, ": ">> \o err.msg, wraps |-> <<err>>]

\* The ctrl.Result and the error HandleError returns.
Handled(requeueAfter, err) ==
  [Requeue |-> FALSE, RequeueAfter |-> requeueAfter, err |-> err]

\* Variant: the terminal test comes before the transient one.
HandleError_TerminalFirst(err, errMsg) ==
  IF err = NilError THEN Handled(0, NilError)
  ELSE IF IsTerminalError(err) THEN Handled(0, Wrapf(errMsg, err))
  ELSE IF IsTransientError(err) THEN Handled(TransientRetryDelay, NilError)
  ELSE Handled(0, Wrapf(errMsg, err))

\* Variant: an error that is terminal is never requeued.
HandleError_TerminalWins(err, errMsg) ==
  IF err = NilError THEN Handled(0, NilError)
  ELSE IF IsTransientError(err) /\ ~IsTerminalError(err)
  THEN Handled(TransientRetryDelay, NilError)
  ELSE Handled(0, Wrapf(errMsg, err))

HandleError(err, errMsg) ==
  IF err = NilError THEN Handled(0, NilError)
  ELSE IF IsTransientError(err) THEN Handled(TransientRetryDelay, NilError)
  ELSE IF IsTerminalError(err) THEN Handled(0, Wrapf(errMsg, err))
  ELSE Handled(0, Wrapf(errMsg, err))

ErrorMessages == {"test", "operation failed"}

\* The functions of the classifier applied to an error value: the input is
\* in pass.before, what the function returned in pass.after.
ClassifierInput == pass.rec = "input"

ApplyIsTransientError ==
  /\ focus = "Errors" /\ ClassifierInput
  /\ pass' = PassRecord("IsTransientError", "", pass.before,
                        IsTransientError(pass.before.err), <<>>, 0, FALSE, FALSE,
                        "", NoEndpoint)
  /\ UNCHANGED <<focus, identitySecret, cluster, ec, machine, bootstrapSecret, em, cloud>>

ApplyIsTerminalError ==
  /\ focus = "Errors" /\ ClassifierInput
  /\ pass' = PassRecord("IsTerminalError", "", pass.before,
                        IsTerminalError(pass.before.err), <<>>, 0, FALSE, FALSE,
                        "", NoEndpoint)
  /\ UNCHANGED <<focus, identitySecret, cluster, ec, machine, bootstrapSecret, em, cloud>>

ApplyHandleError ==
  /\ focus = "Errors" /\ ClassifierInput
  /\ \E out \in {HandleError(pass.before.err, pass.before.errMsg)} :
       pass' = PassRecord("HandleError", "", pass.before, out, <<>>,
                          out.RequeueAfter, out.err # NilError, FALSE, "", NoEndpoint)
  /\ UNCHANGED <<focus, identitySecret, cluster, ec, machine, bootstrapSecret, em, cloud>>

ErrorInit ==
  /\ focus = "Errors"
  /\ identitySecret = TRUE
  /\ cluster = [Name |-> ClusterName, Paused |-> FALSE, InfrastructureReady |-> FALSE,
                ControlPlaneInitialized |-> FALSE, ControlPlaneEndpoint |-> NoEndpoint]
  /\ ec = NewEvrocCluster("", 0)
  /\ machine = [IsControlPlane |-> TRUE, DataSecretName |-> FALSE, ClusterLabel |-> TRUE]
  /\ bootstrapSecret = "absent"
  /\ em = NewEvrocMachine(TRUE)
  /\ cloud = EmptyCloud
  /\ \E e \in ErrorValues \cup {NilError}, m \in ErrorMessages :
       pass = PassRecord("input", "", [err |-> e, errMsg |-> m], <<>>, <<>>, 0,
                         FALSE, FALSE, "", NoEndpoint)

ErrorNext ==
  \/ ApplyIsTransientError
  \/ ApplyIsTerminalError
  \/ ApplyHandleError

ErrorSpec == ErrorInit /\ [][ErrorNext]_vars

(* ------------------------------ properties ----------------------------- *)

CloudKinds == {"VPC", "Subnet", "PublicIP", "Disk", "VM"}

\* Positions in the calls of the pass of the calls to the provider with op.
CloudCalls(op) ==
  {i \in DOMAIN pass.calls : pass.calls[i].op = op /\ pass.calls[i].kind \in CloudKinds}

IsPass(rec) == pass.rec = rec
AnyPass == pass.rec \in {"cluster", "machine"}

\* The pass turned a condition or flag on that was not on when it started.
MarksMachineReady ==
  \/ pass.after.Status.Ready /\ ~pass.before.Status.Ready
  \/ pass.after.Conditions.Ready = CondTrue /\ pass.before.Conditions.Ready # CondTrue
  \/ pass.after.Conditions.VMReady = CondTrue /\ pass.before.Conditions.VMReady # CondTrue

\* C1 (as claimed): a machine pass marks the EvrocMachine ready (Status.Ready,
\* Ready condition, VMReady condition) only if it observed the VM with status
\* "Running"; a pass that just created the VM, or found it in another status,
\* does not.
C1_ReadyOnlyWhenRunning ==
  (IsPass("machine") /\ MarksMachineReady) => pass.seen = "Running"

\* C2: the cluster reconciler writes the Cluster's control-plane endpoint only
\* in a pass that saw a non-empty address on the control-plane PublicIP, and
\* what it writes is (that address, 6443); so an endpoint that is set always
\* carries an allocated address and port 6443.
C2_EndpointOnlyFromAllocatedAddress ==
  /\ (IsPass("cluster") /\ pass.wrote # NoEndpoint) =>
       /\ pass.seen # ""
       /\ pass.seen \in Addresses
       /\ pass.wrote = [Host |-> pass.seen, Port |-> APIServerPort]
       /\ cluster.ControlPlaneEndpoint = pass.wrote
  /\ cluster.ControlPlaneEndpoint # NoEndpoint =>
       /\ cluster.ControlPlaneEndpoint.Host \in Addresses
       /\ cluster.ControlPlaneEndpoint.Port = APIServerPort

C2_Witness ==
  /\ IsPass("cluster") /\ pass.wrote # NoEndpoint
  /\ cluster.ControlPlaneEndpoint.Host \in Addresses

\* C3: for both reconcilers, a pass that started with the finalizer absent
\* issues no create call to the provider; when such a pass reaches
\* reconcileNormal it issues no call at all, adds the finalizer and returns
\* no error of its own.  So every create is issued by a pass that found the
\* finalizer already on the object.
C3_NoCreateBeforeFinalizer ==
  AnyPass =>
    /\ ~pass.before.Finalizer => CloudCalls("create") = {}
    /\ pass.path = "finalizer" =>
         /\ ~pass.before.Finalizer /\ pass.after.Finalizer
         /\ pass.calls = <<>>
         /\ pass.requeueAfter = 0
         /\ pass.err = ~pass.patched
         /\ pass.after = [pass.before EXCEPT !.Finalizer = TRUE]

C3_Witness ==
  /\ IsPass("machine") /\ pass.path = "finalizer"
  /\ ~pass.before.Finalizer /\ em.Finalizer /\ pass.calls = <<>>

\* Positions of the delete calls of the pass for a resource of a kind and name.
DeletesOf(kind, name) ==
  {i \in CloudCalls("delete") : pass.calls[i].kind = kind /\ pass.calls[i].name = name}

\* Some delete of the resource was issued and answered within the set.
DeleteAnswered(kind, name, answers) ==
  \E i \in DeletesOf(kind, name) : pass.calls[i].res \in answers

RemovesFinalizer == pass.before.Finalizer /\ ~pass.after.Finalizer

\* Names of the subnets declared in the spec of the EvrocCluster of the pass.
DeclaredSubnets == {pass.before.Spec.Subnets[i].Name : i \in DOMAIN pass.before.Spec.Subnets}

\* C4: a cluster pass removes the EvrocCluster finalizer only if it issued a
\* delete for every declared subnet, for the control-plane PublicIP and for
\* the VPC, and each was answered ok, not-found or forbidden; a pass in which
\* a delete is answered by another error keeps the finalizer and returns an
\* error.
C4_ClusterFinalizerAfterDeletes ==
  IsPass("cluster") =>
    /\ RemovesFinalizer =>
         /\ \A n \in DeclaredSubnets :
              DeleteAnswered("Subnet", n, {"ok", "notfound", "forbidden"})
         /\ DeleteAnswered("PublicIP", ControlPlanePublicIPNameOf(pass.before),
                           {"ok", "notfound", "forbidden"})
         /\ DeleteAnswered("VPC", VPCNameOf(pass.before), {"ok", "notfound", "forbidden"})
         /\ \A i \in CloudCalls("delete") : pass.calls[i].res # "error"
    /\ (\E i \in CloudCalls("delete") : pass.calls[i].res = "error") =>
         /\ pass.after.Finalizer = pass.before.Finalizer
         /\ ec.Finalizer = pass.before.Finalizer
         /\ pass.err

C4_Witness ==
  /\ IsPass("cluster") /\ RemovesFinalizer /\ ~ec.Finalizer
  /\ \E n \in DeclaredSubnets : DeleteAnswered("Subnet", n, {"forbidden"})
  /\ DeleteAnswered("VPC", VPCNameOf(pass.before), {"ok"})

\* C5: a machine pass removes the EvrocMachine finalizer only if it issued a
\* delete for the VM, for the boot disk and, when a public IP was requested,
\* for the per-machine PublicIP, and each was answered ok or not-found; a
\* pass in which a delete is answered otherwise keeps the finalizer and
\* returns an error.
C5_MachineFinalizerAfterDeletes ==
  IsPass("machine") =>
    /\ RemovesFinalizer =>
         /\ DeleteAnswered("VM", pass.before.Name, {"ok", "notfound"})
         /\ DeleteAnswered("Disk", BootDiskNameOf(pass.before), {"ok", "notfound"})
         /\ pass.before.Spec.PublicIP =>
              DeleteAnswered("PublicIP", MachinePublicIPNameOf(pass.before),
                             {"ok", "notfound"})
         /\ \A i \in CloudCalls("delete") : pass.calls[i].res \in {"ok", "notfound"}
    /\ (\E i \in CloudCalls("delete") : pass.calls[i].res \notin {"ok", "notfound"}) =>
         /\ pass.after.Finalizer = pass.before.Finalizer
         /\ em.Finalizer = pass.before.Finalizer
         /\ pass.err

C5_Witness ==
  /\ IsPass("machine") /\ RemovesFinalizer /\ ~em.Finalizer
  /\ pass.before.Spec.PublicIP
  /\ DeleteAnswered("VM", pass.before.Name, {"ok"})
  /\ DeleteAnswered("PublicIP", MachinePublicIPNameOf(pass.before), {"ok"})

\* The names the deletion path may address, from the object's name and spec.
DeletionTargets ==
  IF IsPass("cluster")
  THEN {<<"Subnet", n>> : n \in DeclaredSubnets}
         \cup {<<"PublicIP", ControlPlanePublicIPNameOf(pass.before)>>,
               <<"VPC", VPCNameOf(pass.before)>>}
  ELSE {<<"VM", pass.before.Name>>, <<"Disk", BootDiskNameOf(pass.before)>>,
        <<"PublicIP", MachinePublicIPNameOf(pass.before)>>}

\* C6: for both reconcilers, a pass that finds a deletion timestamp takes no
\* forward-provisioning action: every call it issues is a delete, it adds no
\* finalizer, writes no endpoint, changes no status and no condition; it
\* returns on the deletion path (or before it: paused, secret missing), and
\* its deletes address names derived from the object's name and spec.
C6_DeletionBypassesProvisioning ==
  (AnyPass /\ pass.before.Exists /\ pass.before.DeletionTimestamp) =>
    /\ \A i \in DOMAIN pass.calls :
         /\ pass.calls[i].op = "delete"
         /\ <<pass.calls[i].kind, pass.calls[i].name>> \in DeletionTargets
    /\ ~(pass.after.Finalizer /\ ~pass.before.Finalizer)
    /\ pass.wrote = NoEndpoint
    /\ pass.after.Status = pass.before.Status
    /\ pass.after.Conditions = pass.before.Conditions
    /\ pass.after.Spec = pass.before.Spec
    /\ pass.path \in {"delete", "paused", "nosecret", "clienterror", "noowner",
                      "nocluster", "noevroccluster"}

C6_Witness ==
  /\ IsPass("cluster") /\ pass.path = "delete" /\ pass.before.DeletionTimestamp
  /\ ~pass.before.Finalizer
  /\ pass.before.Status.ControlPlanePublicIPName = ""
  /\ Len(pass.calls) = Len(pass.before.Spec.Subnets) + 2

KindRank(kind) == CASE kind = "VM" -> 1 [] kind = "Disk" -> 2 [] kind = "PublicIP" -> 3

\* C7: in a machine deletion the delete calls come in the order VM, boot
\* disk, PublicIP: the first is the VM's, and a delete is followed by another
\* only if it was answered ok or not-found.
C7_MachineDeleteOrder ==
  (IsPass("machine") /\ pass.path = "delete") =>
    /\ Len(pass.calls) >= 1
    /\ pass.calls[1].kind = "VM"
    /\ \A i \in DOMAIN pass.calls : pass.calls[i].op = "delete"
    /\ \A i, j \in DOMAIN pass.calls :
         i < j => /\ KindRank(pass.calls[i].kind) < KindRank(pass.calls[j].kind)
                  /\ pass.calls[i].res \in {"ok", "notfound"}
    /\ \A i \in DOMAIN pass.calls :
         pass.calls[i].kind = "PublicIP" =>
           \E j \in 1..(i - 1) : pass.calls[j].kind = "Disk"

C7_Witness ==
  /\ IsPass("machine") /\ pass.path = "delete"
  /\ Len(pass.calls) = 3
  /\ pass.calls[1].res = "notfound" /\ pass.calls[2].res = "ok"

\* C8: in a cluster network deletion the VPC delete is issued only after a
\* delete of every declared subnet was issued and answered ok, not-found or
\* forbidden, and no subnet delete follows it.
C8_VPCDeletedAfterSubnets ==
  IsPass("cluster") =>
    \A i \in CloudCalls("delete") :
      pass.calls[i].kind = "VPC" =>
        /\ \A n \in DeclaredSubnets :
             \E j \in 1..(i - 1) :
               /\ pass.calls[j] \in
                    {Call("delete", "Subnet", n, a) : a \in {"ok", "notfound", "forbidden"}}
        /\ \A j \in CloudCalls("delete") : pass.calls[j].kind = "Subnet" => j < i

C8_Witness ==
  /\ IsPass("cluster")
  /\ \E i \in CloudCalls("delete") : pass.calls[i].kind = "VPC" /\ pass.calls[i].res = "ok"
  /\ \E j \in CloudCalls("delete") :
       pass.calls[j].kind = "Subnet" /\ pass.calls[j].res = "forbidden"

\* C9 (as claimed): on the deletion path of either reconciler a delete
\* answered not-found or forbidden counts as success for every resource kind:
\* when every delete of the pass is answered ok, not-found or forbidden, the
\* Service returns no error and the finalizer is removed.
C9_NotFoundAndForbiddenTolerated ==
  (AnyPass /\ pass.path = "delete"
     /\ \A i \in CloudCalls("delete") : pass.calls[i].res \in {"ok", "notfound", "forbidden"})
  => /\ ~pass.after.Finalizer
     /\ (pass.err => ~pass.patched)

\* C10 (as claimed): when the Cluster is not paused, the identity secret is
\* readable and every delete is answered success, not-found or forbidden,
\* an EvrocCluster that carries the finalizer and a deletion timestamp
\* eventually has the finalizer removed.
C10_DeletionCompletes ==
  (ec.Exists /\ ec.DeletionTimestamp /\ ec.Finalizer /\ identitySecret /\ ~ClusterPaused)
    ~> ~ec.Finalizer

\* The machine pass got past the early exits of Reconcile: the EvrocMachine
\* exists, its owner Machine, Cluster and EvrocCluster resolve, the Cluster
\* is not paused and the identity secret is readable.
MachinePassDispatched ==
  /\ IsPass("machine")
  /\ pass.before.Exists /\ pass.before.OwnerRef /\ machine.ClusterLabel
  /\ ec.Exists /\ ~cluster.Paused
  /\ identitySecret

\* The worker machine has no bootstrap reference and the control plane is
\* not initialized.
WorkerAwaitsControlPlane ==
  ~machine.IsControlPlane /\ ~machine.DataSecretName /\ ~cluster.ControlPlaneInitialized

NoForwardCalls == CloudCalls("get") = {} /\ CloudCalls("create") = {}

C13_VMCreatedFromBootstrapData ==
  /\ IsPass("machine") =>
       \A i \in CloudCalls("create") :
         pass.calls[i].kind = "VM" =>
           /\ machine.DataSecretName
           /\ bootstrapSecret \in BootstrapPayloads
           /\ pass.after.Conditions.BootstrapDataReady = CondTrue
           /\ pass.calls[i].res = "ok" =>
                /\ pass.calls[i].name \in DOMAIN cloud.vms
                /\ cloud.vms[pass.calls[i].name].CloudInitUserData
                     = StdEncoding(bootstrapSecret)
                /\ cloud.vms[pass.calls[i].name].CloudInitUserData # bootstrapSecret
  /\ \A n \in DOMAIN cloud.vms :
       /\ bootstrapSecret \in BootstrapPayloads
       /\ cloud.vms[n].CloudInitUserData = StdEncoding(bootstrapSecret)

C13_Witness ==
  /\ IsPass("machine")
  /\ bootstrapSecret = "#!/bin/sh"
  /\ \E i \in CloudCalls("create") :
       pass.calls[i].kind = "VM" /\ pass.calls[i].res = "ok"
  /\ MachineName \in DOMAIN cloud.vms
  /\ cloud.vms[MachineName].CloudInitUserData = "base64(#!/bin/sh)"

\* Before position i the pass found the resource or created it.
EnsuredBefore(i, kind, name) ==
  \E j \in 1..(i - 1) :
    pass.calls[j] \in {Call("get", kind, name, "found"), Call("create", kind, name, "ok")}

\* Positions of the calls of the pass on resources of a kind.
CallsOnKind(kind) == {i \in DOMAIN pass.calls : pass.calls[i].kind = kind}

\* C14: in a cluster pass a call on the control-plane PublicIP comes only
\* after the VPC and every declared subnet were found or created and no
\* earlier call failed; a pass whose network reconciliation failed issues no
\* PublicIP call, no patch of the Cluster and writes no endpoint.
C14_NetworkBeforePublicIP ==
  IsPass("cluster") =>
    /\ \A i \in CallsOnKind("PublicIP") :
         pass.calls[i].op \in {"get", "create"} =>
           /\ EnsuredBefore(i, "VPC", VPCNameOf(pass.before))
           /\ \A n \in DeclaredSubnets : EnsuredBefore(i, "Subnet", n)
           /\ \A j \in 1..(i - 1) : pass.calls[j].res \notin FailureAnswers
           /\ pass.after.Conditions.NetworkReady = CondTrue
    /\ (\/ pass.path = "network"
        \/ \E j \in CallsOnKind("VPC") \cup CallsOnKind("Subnet") :
             /\ pass.calls[j].op \in {"get", "create"}
             /\ pass.calls[j].res \in FailureAnswers) =>
         /\ CallsOnKind("PublicIP") = {}
         /\ CallsOnKind("Cluster") = {}
         /\ pass.wrote = NoEndpoint
         /\ pass.err
         /\ pass.after.Conditions.NetworkReady = "NetworkReconciliationFailed"

C14_Witness ==
  /\ IsPass("cluster")
  /\ \E i \in CallsOnKind("PublicIP") :
       /\ pass.calls[i].op = "create" /\ pass.calls[i].res = "ok"
       /\ \E j \in 1..(i - 1) : pass.calls[j].op = "create" /\ pass.calls[j].kind = "Subnet"
  /\ ControlPlanePublicIPNameOf(ec) \in DOMAIN cloud.publicIPs

\* Positions in the log of the marks of the invocations of a function.
Marks(fn) ==
  {i \in DOMAIN pass.calls : pass.calls[i] = Call("invoke", fn, "", "")}

\* Positions in the log of the create calls for a resource.
CreatesOf(kind, name) ==
  {i \in DOMAIN pass.calls : /\ pass.calls[i].op = "create"
                              /\ pass.calls[i].kind = kind
                              /\ pass.calls[i].name = name}

\* The network status ReconcileNetwork writes.
NetworkStatus(o) == [VPC |-> o.Status.VPC, Subnets |-> o.Status.Subnets]

\* The network status that answers the spec of the object.
DeclaredNetworkStatus(o) ==
  [VPC |-> [Name |-> VPCNameOf(o), Ready |-> TRUE],
   Subnets |-> [i \in DOMAIN o.Spec.Subnets |->
                  [Name |-> o.Spec.Subnets[i].Name, ID |-> o.Spec.Subnets[i].Name,
                   CIDRBlock |-> o.Spec.Subnets[i].CIDRBlock, Ready |-> TRUE]]]

\* No request for a VPC or a Subnet has failed: the store has answered and
\* kept what was created.
NetworkStoreKept ==
  \A i \in DOMAIN pass.calls :
    pass.calls[i].kind \in {"VPC", "Subnet"} => pass.calls[i].res # "error"

\* C15: ReconcileNetwork invoked again and again on an unchanged spec,
\* against a store that keeps what was created, issues at most one create
\* per resource over all invocations, none after its first invocation, and
\* leaves the same network status after each invocation: the one that
\* answers the spec.
C15_ReconcileNetworkIdempotent ==
  LET first == {i \in Marks("ReconcileNetwork") :
                  \A j \in Marks("ReconcileNetwork") : i <= j}
      networkCreates == {i \in DOMAIN pass.calls :
                           /\ pass.calls[i].op = "create"
                           /\ pass.calls[i].kind \in {"VPC", "Subnet"}}
  IN
  (IsPass("service") /\ NetworkStoreKept) =>
    /\ \A i \in networkCreates :
         /\ Cardinality(CreatesOf(pass.calls[i].kind, pass.calls[i].name)) = 1
         /\ Cardinality({j \in Marks("ReconcileNetwork") : j < i}) = 1
         /\ \A m \in first :
              \A j \in m..i : pass.calls[j].op \in {"invoke", "get", "create"}
    /\ pass.path = "ReconcileNetwork" =>
         /\ ~pass.err
         /\ NetworkStatus(pass.after) = DeclaredNetworkStatus(pass.after)
         /\ pass.after.Spec = pass.before.Spec
         /\ Cardinality(Marks("ReconcileNetwork")) >= 2 =>
              NetworkStatus(pass.after) = NetworkStatus(pass.before)

C15_Witness ==
  /\ IsPass("service") /\ pass.path = "ReconcileNetwork" /\ NetworkStoreKept
  /\ Cardinality(Marks("ReconcileNetwork")) = 2
  /\ Len(pass.after.Spec.Subnets) = 2
  /\ CreatesOf("VPC", VPCNameOf(pass.after)) # {}
  /\ CreatesOf("Subnet", "subnet-2") # {}
  /\ CreatesOf("Subnet", "subnet-1") = {}
  /\ pass.calls[Len(pass.calls) - 1].op = "get"

\* Positions in the log of what the invocations of a function returned.
Returns(fn) ==
  {i \in DOMAIN pass.calls : pass.calls[i].op = "return" /\ pass.calls[i].kind = fn}

\* The PublicIPs created at the provider, by position in the log.
PublicIPsCreated ==
  {i \in DOMAIN pass.calls : /\ pass.calls[i].op = "create"
                              /\ pass.calls[i].kind = "PublicIP"
                              /\ pass.calls[i].res = "ok"}

\* The address the provider reports for the control-plane PublicIP ("" when
\* it reports none).
ProviderAddress ==
  IF ControlPlanePublicIPNameOf(ec) \in DOMAIN cloud.publicIPs
  THEN cloud.publicIPs[ControlPlanePublicIPNameOf(ec)] ELSE ""

\* C16 as stated: every call of ReconcileControlPlanePublicIP returns the
\* name <cluster>-cp-publicip, every call made while the provider reports no
\* address returns the empty address and no error, and the PublicIP is
\* created at most once.
C16_PublicIPAlwaysNamed ==
  IsPass("service") =>
    /\ \A i \in Returns("ReconcileControlPlanePublicIP") :
         pass.calls[i].name = ControlPlanePublicIPNameOf(ec)
    /\ Cardinality(PublicIPsCreated) <= 1
    /\ (pass.path = "ReconcileControlPlanePublicIP" /\ ProviderAddress = "") =>
         ~pass.err /\ pass.seen = ""

\* C16, amended: every call of ReconcileControlPlanePublicIP in which no
\* request to the provider fails returns the name <cluster>-cp-publicip, no
\* error and the address the provider reports, empty while it reports none,
\* the creating call included; a call in which a request fails returns the
\* error with empty name and address; the PublicIP is created at most once.
C16_PublicIPNamedUnlessRequestFails ==
  IsPass("service") =>
    /\ \A i \in Returns("ReconcileControlPlanePublicIP") :
         IF pass.calls[i - 1].res = "error"
         THEN pass.calls[i].name = "" /\ pass.calls[i].res = ""
         ELSE pass.calls[i].name = ControlPlanePublicIPNameOf(ec)
    /\ Cardinality(PublicIPsCreated) <= 1
    /\ \A i \in Returns("ReconcileControlPlanePublicIP") :
         /\ pass.calls[i].res \in {"", ProviderAddress}
         /\ pass.calls[i - 1] =
              Call("get", "PublicIP", ControlPlanePublicIPNameOf(ec), "found") =>
                pass.calls[i].name = "c1-cp-publicip"
    /\ pass.path = "ReconcileControlPlanePublicIP" =>
         /\ pass.err = (pass.calls[Len(pass.calls) - 1].res = "error")
         /\ pass.seen = pass.calls[Len(pass.calls)].res

C16_Witness ==
  /\ IsPass("service") /\ Cardinality(PublicIPsCreated) = 1
  /\ \E i, j \in Returns("ReconcileControlPlanePublicIP") :
       /\ i < j
       /\ pass.calls[i - 2].op = "create" /\ pass.calls[i - 1].res = "found"
       /\ pass.calls[i].res = "" /\ pass.calls[i].name = "c1-cp-publicip"
       /\ pass.calls[j].res \in Addresses /\ pass.calls[j].name = "c1-cp-publicip"

\* The patch requests a pass record holds for the Cluster object.
ClusterPatches(p) ==
  {i \in DOMAIN p.calls : p.calls[i].op = "patch" /\ p.calls[i].kind = "Cluster"}

\* The endpoint that answers the address the provider has allocated.
AllocatedEndpoint(c) == [Host |-> c.publicIPs["c1-cp-publicip"], Port |-> 6443]

\* C17: the control-plane endpoint is written once.  A cluster pass sends
\* at most one patch of the Cluster; a pass that finds the endpoint equal to
\* (allocated address, 6443) sends none and leaves the Cluster as it is; a
\* patch that succeeds finds the endpoint unset and sets it to (allocated
\* address, 6443); and once set, no step changes the endpoint.  Hence at
\* most one patch of the Cluster succeeds while the address stays the same.
C17_EndpointWrittenOnce ==
  [][/\ (pass.rec = "none" /\ pass'.rec = "cluster") =>
          /\ Cardinality(ClusterPatches(pass')) <= 1
          /\ (/\ "c1-cp-publicip" \in DOMAIN cloud'.publicIPs
              /\ cloud'.publicIPs["c1-cp-publicip"] # ""
              /\ cluster.ControlPlaneEndpoint = AllocatedEndpoint(cloud')) =>
                /\ ClusterPatches(pass') = {}
                /\ cluster' = cluster
          /\ (\E i \in ClusterPatches(pass') : pass'.calls[i].res = "ok") =>
                /\ cluster.ControlPlaneEndpoint = NoEndpoint
                /\ cluster'.ControlPlaneEndpoint = AllocatedEndpoint(cloud')
                /\ pass'.before.OwnerRef
          /\ ClusterPatches(pass') = {} => cluster' = cluster
     /\ cluster.ControlPlaneEndpoint # NoEndpoint =>
          cluster'.ControlPlaneEndpoint = cluster.ControlPlaneEndpoint
    ]_vars

C17_Witness ==
  /\ IsPass("cluster") /\ pass.path = "ready" /\ ~pass.err
  /\ pass.seen \in Addresses
  /\ pass.wrote = NoEndpoint /\ ClusterPatches(pass) = {}
  /\ pass.before.OwnerRef
  /\ cluster.ControlPlaneEndpoint = [Host |-> pass.seen, Port |-> APIServerPort]

\* The pass got past the early exits of Reconcile, so its deferred patch ran.
DeferredPatchRan ==
  AnyPass /\ pass.path \notin {"notfound", "paused", "noowner", "nocluster",
                                "noevroccluster"}

\* The patch requests of a pass for the object it reconciles, other than
\* the deferred one.
MidPassPatches ==
  {i \in DOMAIN pass.calls :
     /\ pass.calls[i].op = "patch"
     /\ pass.calls[i].kind = (IF IsPass("cluster") THEN "EvrocCluster" ELSE "EvrocMachine")}

\* The number of patches of the reconciled object a pass sends.
ObjectPatches ==
  Cardinality(MidPassPatches) + (IF DeferredPatchRan THEN 1 ELSE 0)

\* C18: a pass that got past the early exits of Reconcile patches the
\* object it reconciles exactly once, with the deferred patch on exit,
\* whether it succeeded or failed.
C18_OnePatchPerPass ==
  DeferredPatchRan => ObjectPatches = 1

\* C19: when the owning Cluster is paused, a pass of either reconciler
\* returns no error and no requeue and changes nothing: the reconciled
\* object keeps its finalizer, status and conditions, no call goes to the
\* provider or to the Cluster, the provider's state stays, no patch is
\* sent; with a deletion timestamp as without.
C19_PausedPassChangesNothing ==
  [][(/\ pass.rec = "none"
      /\ cluster.Paused
      /\ \/ pass'.rec = "cluster" /\ ec.Exists /\ ec.OwnerRef
         \/ pass'.rec = "machine" /\ em.Exists) =>
        /\ ~pass'.err
        /\ pass'.requeueAfter = 0
        /\ pass'.calls = <<>>
        /\ ~pass'.patched
        /\ pass'.after = pass'.before
        /\ pass'.before = (IF pass'.rec = "cluster" THEN ec ELSE em)
        /\ UNCHANGED <<cluster, ec, em, cloud, machine, bootstrapSecret, identitySecret>>
    ]_vars

C19_Witness ==
  /\ IsPass("cluster") /\ pass.path = "paused"
  /\ cluster.Paused /\ ec.OwnerRef
  /\ ec.DeletionTimestamp /\ ec.Finalizer
  /\ cloud.vpcs # {} /\ cloud.publicIPs # <<>>
  /\ ec.Conditions.Ready = CondTrue

\* A pass over an object that has no finalizer and no deletion timestamp and
\* is not paused; for a machine, its owner Machine, Cluster and EvrocCluster
\* resolve.
FirstPass ==
  /\ AnyPass
  /\ pass.before.Exists /\ ~pass.before.Finalizer /\ ~pass.before.DeletionTimestamp
  /\ IsPass("cluster") => ~(pass.before.OwnerRef /\ cluster.Paused)
  /\ IsPass("machine") =>
       pass.before.OwnerRef /\ machine.ClusterLabel /\ ec.Exists /\ ~cluster.Paused

\* C20: the first pass over an object adds the finalizer to it and returns
\* without error (the deferred patch being accepted by the store).
C20_FirstPassAddsFinalizer ==
  (FirstPass /\ pass.patched) =>
    /\ ~pass.err
    /\ pass.after.Finalizer
    /\ IF IsPass("cluster") THEN ec.Finalizer ELSE em.Finalizer

\* A request of the pass was answered with an error.
RequestFailed == \E i \in DOMAIN pass.calls : pass.calls[i].res \in FailureAnswers

\* A cluster pass over an EvrocCluster that has no owning Cluster (no
\* deletion timestamp, identity secret readable).
OwnerlessClusterPass ==
  /\ IsPass("cluster")
  /\ pass.before.Exists /\ ~pass.before.OwnerRef /\ ~pass.before.DeletionTimestamp
  /\ identitySecret

C23_NetworkFailureClearsReadiness ==
  (IsPass("cluster") /\ pass.path = "network") =>
    /\ pass.err
    /\ pass.after.Conditions.NetworkReady = "NetworkReconciliationFailed"
    /\ pass.after.Conditions.Ready = "NetworkNotReady"
    /\ ~pass.after.Status.Ready

\* C24: a pass in which a request to the provider failed with a transient
\* error returns no error and a requeue after the fixed delay (its deferred
\* patch being accepted).
C24_TransientErrorsRequeue ==
  (AnyPass /\ pass.patched
     /\ \E i \in DOMAIN pass.calls :
          pass.calls[i].kind \in CloudKinds /\ pass.calls[i].res = "timeout") =>
    /\ ~pass.err
    /\ pass.requeueAfter = TransientRetryDelay

\* The input of the classifier function that was applied.
GivenError == pass.before.err

\* The error is one the table calls transient.
TableTransient(e) ==
  \/ e.kind = "net"
  \/ \E p \in {"timeout", "connection refused", "connection reset", "rate limit",
                "too many requests", "temporarily unavailable"} :
       \E i \in DOMAIN e.msg : e.msg[i] = p
  \/ e.kind = "status"
     /\ e.reason \in {"ServiceUnavailable", "Timeout", "ServerTimeout", "TooManyRequests"}

\* The error is one the table calls terminal.
TableTerminal(e) ==
  /\ e.kind = "status"
  /\ e.reason \in {"Invalid", "BadRequest", "Forbidden", "Unauthorized", "NotFound",
                    "Conflict"}

\* C25 as stated: HandleError gives an empty result and no error for nil;
\* no error and a delay of exactly 30 seconds for a transient error; for a
\* terminal error, and for an error that is neither, the error
\* `<message>: <error>` wrapping the input, no requeue and no delay.
C25_HandleErrorOutcomes ==
  IsPass("HandleError") =>
    LET e == GivenError
        wrapped == [kind |-> "wrapped", reason |-> e.reason,
                    msg |-> <<pass.before.errMsg, ": ">> \o e.msg, wraps |-> <<e>>]
    IN
    /\ e = NilError =>
         pass.after = [Requeue |-> FALSE, RequeueAfter |-> 0, err |-> NilError]
    /\ (e # NilError /\ TableTransient(e)) =>
         pass.after = [Requeue |-> FALSE, RequeueAfter |-> 30, err |-> NilError]
    /\ (e # NilError /\ TableTerminal(e)) =>
         pass.after = [Requeue |-> FALSE, RequeueAfter |-> 0, err |-> wrapped]
    /\ (e # NilError /\ ~TableTransient(e) /\ ~TableTerminal(e)) =>
         pass.after = [Requeue |-> FALSE, RequeueAfter |-> 0, err |-> wrapped]

\* C25, amended: HandleError gives an empty result and no error for nil; no
\* error and a delay of exactly 30 seconds for every transient error, also
\* one that is terminal as well; for a terminal error that is not
\* transient, and for an error that is neither, the error
\* `<message>: <error>` wrapping the input, no requeue and no delay.
C25_HandleErrorTransientFirst ==
  IsPass("HandleError") =>
    LET e == GivenError
        wrapped == [kind |-> "wrapped", reason |-> e.reason,
                    msg |-> <<pass.before.errMsg, ": ">> \o e.msg, wraps |-> <<e>>]
    IN
    /\ pass.after.RequeueAfter = TransientRetryDelay \/ pass.after.RequeueAfter = 0
    /\ e = NilError =>
         pass.after = [Requeue |-> FALSE, RequeueAfter |-> 0, err |-> NilError]
    /\ (e # NilError /\ TableTransient(e)) =>
         pass.after = [Requeue |-> FALSE, RequeueAfter |-> 30, err |-> NilError]
    /\ (e # NilError /\ ~TableTransient(e)) =>
         pass.after = [Requeue |-> FALSE, RequeueAfter |-> 0, err |-> wrapped]

C25_Witness ==
  /\ IsPass("HandleError")
  /\ GivenError.kind = "status" /\ GivenError.reason = "Forbidden"
  /\ GivenError.msg = <<"forbidden", "rate limit">>
  /\ pass.after.err = NilError /\ pass.after.RequeueAfter = 30

\* C26: IsTransientError is true exactly for the network errors, the errors
\* whose text holds timeout, connection refused, connection reset, rate
\* limit, too many requests or temporarily unavailable, and the store's
\* service-unavailable, timeout and too-many-requests signals;
\* IsTerminalError is true exactly for the store's invalid, bad-request,
\* forbidden, unauthorized, not-found and conflict signals; both are false
\* for nil.
C26_ClassifierTable ==
  /\ IsPass("IsTransientError") =>
       pass.after = (GivenError # NilError /\ TableTransient(GivenError))
  /\ IsPass("IsTerminalError") =>
       pass.after = (GivenError # NilError /\ TableTerminal(GivenError))

C26_Witness ==
  /\ IsPass("IsTransientError") /\ pass.after = TRUE
  /\ GivenError.kind = "plain"
  /\ GivenError.msg = <<"rate limit", "some other error">>

\* C27: a machine pass over a control-plane machine that requests a public
\* IP neither fetches nor creates the per-machine PublicIP
\* <machine>-publicip, and the VM it creates references the control-plane
\* PublicIP by the name recorded in the status of the EvrocCluster.
C27_ControlPlaneReusesPublicIP ==
  (IsPass("machine") /\ machine.IsControlPlane /\ pass.before.Spec.PublicIP) =>
    /\ \A i \in DOMAIN pass.calls :
         ~(/\ pass.calls[i].op \in {"get", "create"}
           /\ pass.calls[i].kind = "PublicIP"
           /\ pass.calls[i].name = MachinePublicIPNameOf(pass.before))
    /\ (\E i \in DOMAIN pass.calls :
          pass.calls[i] = Call("create", "VM", pass.before.Name, "ok")) =>
         /\ ec.Status.ControlPlanePublicIPName = ControlPlanePublicIPNameOf(ec)
         /\ cloud.vms[pass.before.Name].PublicIPRef = ec.Status.ControlPlanePublicIPName

\* The provider has allocated the address of the PublicIP the VM of the
\* machine references, and reports the VM as Running.
VMRunningWithAddress ==
  /\ em.Name \in DOMAIN cloud.vms
  /\ cloud.vms[em.Name].Status = "Running"
  /\ cloud.vms[em.Name].PublicIPRef \in DOMAIN cloud.publicIPs
  /\ cloud.publicIPs[cloud.vms[em.Name].PublicIPRef] # ""

\* The EvrocMachine is ready with two addresses and a provider identifier.
MachineProvisioned ==
  /\ em.Status.Ready
  /\ Len(em.Status.Addresses) = 2
  /\ em.Status.Addresses[1].Type = "InternalIP"
  /\ em.Status.Addresses[2].Type = "ExternalIP"
  /\ em.Spec.ProviderID # ""

\* C28: with passes triggered only by changes of the EvrocMachine and by
\* what the passes return, if the provider eventually allocates the address
\* and reports the VM as Running, then eventually the EvrocMachine is ready
\* with two addresses and a provider identifier.
C28_MachineEventuallyProvisioned ==
  (<>VMRunningWithAddress) => <>MachineProvisioned

\* The addresses a VM reports, as the machine status lists them.
ReportedAddresses(vm) ==
  << [Type |-> "InternalIP", Address |-> vm.PrivateIPv4Address],
     [Type |-> "ExternalIP", Address |-> vm.PublicIPv4Address] >>

\* C29: a provider identifier, once set, is evroc://<project>/<vm-name> and
\* comes with exactly two addresses, internal then external; a machine pass
\* that sets it observed the VM Running and recorded the two addresses the
\* VM reports; a machine pass that observes the VM in another status leaves
\* the provider identifier and the addresses as they were.
C29_ProviderIDOnlyWhenRunning ==
  /\ em.Spec.ProviderID # "" =>
       /\ em.Spec.ProviderID = "evroc://" \o ec.Spec.Project \o "/" \o em.Name
       /\ Len(em.Status.Addresses) = 2
       /\ em.Status.Addresses[1].Type = "InternalIP"
       /\ em.Status.Addresses[2].Type = "ExternalIP"
  /\ (IsPass("machine") /\ (em.Spec.ProviderID # pass.before.Spec.ProviderID
                             \/ em.Status.Addresses # pass.before.Status.Addresses)) =>
       /\ pass.seen = "Running"
       /\ em.Name \in DOMAIN cloud.vms
       /\ cloud.vms[em.Name].Status = "Running"
       /\ em.Status.Addresses = ReportedAddresses(cloud.vms[em.Name])
       /\ em.Spec.ProviderID # ""
  /\ (IsPass("machine") /\ pass.seen \notin {"", "Running"}) =>
       /\ em.Spec.ProviderID = pass.before.Spec.ProviderID
       /\ em.Status.Addresses = pass.before.Status.Addresses
       /\ pass.after.Spec.ProviderID = pass.before.Spec.ProviderID
       /\ pass.after.Status.Addresses = pass.before.Status.Addresses

C29_Witness ==
  /\ IsPass("machine") /\ pass.seen = "Running"
  /\ pass.before.Spec.ProviderID = ""
  /\ em.Spec.ProviderID = "evroc://proj/m1"
  /\ em.Status.Addresses =
       << [Type |-> "InternalIP", Address |-> "10.0.1.5"],
          [Type |-> "ExternalIP", Address |-> "203.0.113.7"] >>

\* A machine pass that reached the fetch of the bootstrap data: it was
\* dispatched to reconcileNormal with the finalizer present, the
\* infrastructure ready and the bootstrap reference set.
ReachedBootstrapFetch ==
  /\ MachinePassDispatched
  /\ pass.before.Finalizer /\ ~pass.before.DeletionTimestamp
  /\ cluster.InfrastructureReady
  /\ machine.DataSecretName

\* C30 (as claimed): a machine pass with the bootstrap reference set marks
\* the bootstrap condition false and returns a 5-second requeue, no error
\* and no cloud call when the secret is not found; when the read fails in
\* another way (a secret without a `value` key) it marks the bootstrap and
\* Ready conditions false, returns the error and makes no cloud call.
C30_BootstrapFetchFailures ==
  (IsPass("machine") /\ pass.before.Exists /\ machine.DataSecretName) =>
    /\ bootstrapSecret = "absent" =>
         /\ pass.after.Conditions.BootstrapDataReady = "BootstrapDataSecretNotFound"
         /\ pass.requeueAfter = BootstrapDataRetryDelay
         /\ ~pass.err
         /\ pass.calls = <<>>
    /\ bootstrapSecret = "novalue" =>
         /\ pass.after.Conditions.BootstrapDataReady = "BootstrapDataUnavailable"
         /\ pass.after.Conditions.Ready = "BootstrapDataNotReady"
         /\ pass.err
         /\ pass.calls = <<>>

\* C30 (amended): a machine pass that reaches the fetch of the bootstrap
\* data (owners resolve, Cluster not paused, identity secret readable,
\* finalizer present, no deletion timestamp, infrastructure ready) makes no
\* cloud call when the fetch fails; with the secret not found it marks only
\* the bootstrap condition false and returns a 5-second requeue and no
\* error other than that of its deferred patch; with a secret without a
\* `value` key it marks the bootstrap and Ready conditions false and
\* returns an error and no requeue delay.
C30_BootstrapFetchFailuresAtFetch ==
  ReachedBootstrapFetch =>
    /\ bootstrapSecret = "absent" =>
         /\ pass.path = "waitsecret"
         /\ pass.after = [pass.before EXCEPT
                            !.Conditions.BootstrapDataReady = "BootstrapDataSecretNotFound"]
         /\ pass.requeueAfter = BootstrapDataRetryDelay
         /\ pass.requeueAfter = 5
         /\ pass.err = ~pass.patched
         /\ pass.calls = <<>>
    /\ bootstrapSecret = "novalue" =>
         /\ pass.path = "bootstraperror"
         /\ pass.after = [pass.before EXCEPT
                            !.Conditions.BootstrapDataReady = "BootstrapDataUnavailable",
                            !.Conditions.Ready = "BootstrapDataNotReady"]
         /\ pass.err
         /\ pass.requeueAfter = 0
         /\ pass.calls = <<>>
    /\ bootstrapSecret \in BootstrapPayloads =>
         pass.after.Conditions.BootstrapDataReady = CondTrue

C30_Witness ==
  /\ ReachedBootstrapFetch
  /\ bootstrapSecret = "novalue"
  /\ pass.path = "bootstraperror" /\ pass.err /\ pass.patched
  /\ em.Conditions.BootstrapDataReady = "BootstrapDataUnavailable"
  /\ em.Conditions.Ready = "BootstrapDataNotReady"
  /\ pass.calls = <<>>

\* The VMs that reference the control-plane PublicIP of the cluster.
VMsOnControlPlanePublicIP ==
  {n \in DOMAIN cloud.vms : cloud.vms[n].PublicIPRef = ControlPlanePublicIPNameOf(ec)}

\* C31: at most one VM references the pre-allocated control-plane PublicIP
\* of the cluster, also when several control-plane machines of the cluster
\* request a public IP.
C31_OneVMPerControlPlanePublicIP ==
  Cardinality(VMsOnControlPlanePublicIP) <= 1

\* A cluster pass whose ReconcileControlPlanePublicIP returned the PublicIP
\* without an address.
FoundPublicIPUnallocated ==
  /\ IsPass("cluster") /\ pass.path = "waitaddress"

\* The provider reports an address for the control-plane PublicIP.
ControlPlaneAddressReported ==
  /\ ControlPlanePublicIPNameOf(ec) \in DOMAIN cloud.publicIPs
  /\ cloud.publicIPs[ControlPlanePublicIPNameOf(ec)] # ""

\* What such a pass does to the EvrocCluster and to the Cluster.
WaitsForAddress ==
  /\ pass.requeueAfter = BootstrapDataRetryDelay
  /\ pass.requeueAfter = 5
  /\ pass.after.Status.ControlPlanePublicIPName = ControlPlanePublicIPNameOf(ec)
  /\ pass.after.Conditions.NetworkReady = CondTrue
  /\ pass.after.Status.Ready = pass.before.Status.Ready
  /\ pass.after.Conditions.Ready = pass.before.Conditions.Ready
  /\ pass.wrote = NoEndpoint
  /\ ClusterPatches(pass) = {}
  /\ ~ControlPlaneAddressReported

\* C32 (as claimed): a cluster pass that finds the control-plane PublicIP
\* without an address returns a 5-second requeue and no error, records the
\* name of the PublicIP and NetworkReady true, writes no endpoint and does
\* not mark the EvrocCluster ready; once the provider reports an address the
\* EvrocCluster eventually becomes ready.
C32_WaitsForAddressThenReady ==
  /\ [](FoundPublicIPUnallocated => (WaitsForAddress /\ ~pass.err))
  /\ (ControlPlaneAddressReported ~> ec.Status.Ready)

\* C32 (amended): such a pass returns no error other than that of its
\* deferred patch, and what it recorded is stored when the patch succeeded.
C32_WaitsForAddressUnlessPatchFails ==
  /\ [](FoundPublicIPUnallocated =>
         /\ WaitsForAddress
         /\ pass.err = ~pass.patched
         /\ pass.patched => ec = pass.after)
  /\ (ControlPlaneAddressReported ~> ec.Status.Ready)

C32_Witness ==
  /\ FoundPublicIPUnallocated /\ ~pass.err /\ pass.requeueAfter = 5
  /\ ec.Status.ControlPlanePublicIPName = "c1-cp-publicip"
  /\ ec.Conditions.NetworkReady = CondTrue
  /\ ~ec.Status.Ready
  /\ "c1-cp-publicip" \in DOMAIN cloud.publicIPs /\ cloud.publicIPs["c1-cp-publicip"] = ""

\* The reconciled object as the management store holds it.
StoredObject == IF IsPass("cluster") THEN ec ELSE em

\* C33: a pass that got past the pause check ends with the deferred patch,
\* on every exit path; when that patch fails the pass returns an error, so
\* a pass that returns no error has stored the finalizer, status and
\* conditions it set.
C33_NoErrorMeansCommitted ==
  DeferredPatchRan =>
    /\ ~pass.patched => pass.err
    /\ ~pass.err =>
         /\ pass.patched
         /\ StoredObject = pass.after
    /\ pass.path \in {"nosecret", "clienterror", "finalizer", "network", "publicip",
                       "waitaddress", "endpoint", "ready", "delete", "waitinfra",
                       "waitcontrolplane",
                       "waitbootstrap", "waitsecret", "bootstraperror", "vmerror"}

C33_Witness ==
  /\ IsPass("cluster") /\ pass.path = "finalizer"
  /\ ~pass.patched /\ pass.err /\ pass.calls = <<>>
  /\ pass.after.Finalizer /\ ~ec.Finalizer

\* The last call of the Service was ReconcileNetwork.
ReconcileNetworkReturned == pass.rec = "service" /\ pass.path = "ReconcileNetwork"

\* C34: after a ReconcileNetwork call that returns without error the subnet
\* status list has one entry per declared subnet, in declaration order, each
\* ready with the name and the CIDR block of the declared subnet, whether
\* the subnet was found or created; the list never grows beyond the declared
\* subnets however often the call is repeated; a call that fails leaves the
\* list as it was.
C34_SubnetStatusPerDeclaredSubnet ==
  /\ Len(ec.Status.Subnets) <= Len(ec.Spec.Subnets)
  /\ (ReconcileNetworkReturned /\ ~pass.err) =>
       /\ Len(pass.after.Status.Subnets) = Len(pass.after.Spec.Subnets)
       /\ \A i \in DOMAIN pass.after.Spec.Subnets :
            /\ pass.after.Status.Subnets[i].Name = pass.after.Spec.Subnets[i].Name
            /\ pass.after.Status.Subnets[i].CIDRBlock = pass.after.Spec.Subnets[i].CIDRBlock
            /\ pass.after.Status.Subnets[i].Ready
       /\ ec.Status.Subnets = pass.after.Status.Subnets
  /\ (ReconcileNetworkReturned /\ pass.err) =>
       /\ pass.after.Status.Subnets = pass.before.Status.Subnets
       /\ ec.Status.Subnets = pass.before.Status.Subnets

C34_Witness ==
  /\ ReconcileNetworkReturned /\ ~pass.err
  /\ Cardinality(Marks("ReconcileNetwork")) >= 2
  /\ Len(ec.Spec.Subnets) = 2 /\ Len(ec.Status.Subnets) = 2
  /\ ec.Status.Subnets[2].Name = "subnet-2" /\ ec.Status.Subnets[2].CIDRBlock = "10.0.2.0/24"
  /\ Call("get", "Subnet", "subnet-1", "found") \in {pass.calls[i] : i \in DOMAIN pass.calls}
  /\ Call("create", "Subnet", "subnet-2", "ok") \in {pass.calls[i] : i \in DOMAIN pass.calls}

\* The resources of a kind at the provider, by name.
ResourcesOf(cl, kind) ==
  CASE kind = "VPC" -> [n \in cl.vpcs |-> TRUE]
    [] kind = "Subnet" -> cl.subnets
    [] kind = "PublicIP" -> cl.publicIPs
    [] kind = "Disk" -> cl.disks
    [] kind = "VM" -> cl.vms

\* The calls of a log that wrote to the provider, as <<op, kind, name>>.
ProviderWrites(calls) ==
  {<<calls[i].op, calls[i].kind, calls[i].name>> :
     i \in {j \in DOMAIN calls : calls[j].op \in {"create", "delete"} /\ calls[j].res = "ok"}}

NeedsOwnPublicIP ==
  pass.before.Spec.PublicIP
    /\ ~(machine.IsControlPlane /\ ec.Status.ControlPlanePublicIPName # "")

\* C36: in a machine pass the VM create comes only after the boot disk was
\* found or created and, for a worker that requests a public IP, after
\* <machine>-publicip was found or created; the disk create comes only after
\* that PublicIP; a request that fails is the last call of the pass to the
\* provider, and the pass returns an error.
C36_PublicIPThenDiskThenVM ==
  IsPass("machine") =>
    /\ \A i \in CloudCalls("create") :
         /\ pass.calls[i].kind = "VM" =>
              /\ pass.calls[i].name = pass.before.Name
              /\ EnsuredBefore(i, "Disk", BootDiskNameOf(pass.before))
              /\ (~machine.IsControlPlane /\ pass.before.Spec.PublicIP) =>
                   EnsuredBefore(i, "PublicIP", MachinePublicIPNameOf(pass.before))
              /\ NeedsOwnPublicIP =>
                   EnsuredBefore(i, "PublicIP", MachinePublicIPNameOf(pass.before))
         /\ pass.calls[i].kind = "Disk" =>
              /\ pass.calls[i].name = BootDiskNameOf(pass.before)
              /\ NeedsOwnPublicIP =>
                   EnsuredBefore(i, "PublicIP", MachinePublicIPNameOf(pass.before))
         /\ pass.calls[i].kind = "PublicIP" =>
              /\ NeedsOwnPublicIP
              /\ pass.calls[i].name = MachinePublicIPNameOf(pass.before)
    /\ \A i \in CloudCalls("get") \cup CloudCalls("create") :
         pass.calls[i].res \in FailureAnswers =>
           /\ pass.err
           /\ \A j \in DOMAIN pass.calls : j <= i

C36_Witness ==
  /\ IsPass("machine") /\ ~machine.IsControlPlane /\ pass.before.Spec.PublicIP
  /\ pass.calls = << Call("get", "PublicIP", "m1-publicip", "notfound"),
                     Call("create", "PublicIP", "m1-publicip", "ok"),
                     Call("get", "Disk", "m1-bootdisk", "notfound"),
                     Call("create", "Disk", "m1-bootdisk", "ok"),
                     Call("get", "VM", "m1", "notfound"),
                     Call("create", "VM", "m1", "ok") >>
  /\ ~pass.err

\* C37: HandleError tests the transient classifier first: an error that is
\* both terminal and transient (a forbidden or bad-request API error whose
\* text holds "rate limit" or "timeout") gets a 30-second requeue and no
\* error.
C37_TransientBeforeTerminal ==
  (IsPass("HandleError") /\ GivenError # NilError
     /\ TableTransient(GivenError) /\ TableTerminal(GivenError)) =>
    /\ pass.after.err = NilError
    /\ pass.after.RequeueAfter = 30
    /\ pass.after.RequeueAfter = TransientRetryDelay
    /\ ~pass.after.Requeue
    /\ ~pass.err

C37_Witness ==
  /\ IsPass("HandleError")
  /\ GivenError.kind = "status" /\ GivenError.reason = "BadRequest"
  /\ GivenError.msg = <<"timeout">>
  /\ pass.after = [Requeue |-> FALSE, RequeueAfter |-> 30, err |-> NilError]

\* The pass got as far as evroc.New and the read of the identity secret was
\* answered not-found.
SecretNotFound == AnyPass /\ pass.path = "nosecret"

\* evroc.New failed for another reason.
ClientCreationFailed == AnyPass /\ pass.path = "clienterror"

\* The pass did nothing: no call to the provider, no request to the API
\* server other than the deferred patch, the object as it was (finalizer,
\* status and conditions included), in memory and as stored.
PassMadeNoProgress ==
  /\ pass.calls = <<>>
  /\ pass.wrote = NoEndpoint
  /\ pass.after = pass.before
  /\ StoredObject = pass.before

ClusterPublicIPName == ControlPlanePublicIPNameOf(ec)

\* The PublicIP deletes a call of the Service issued, whatever the answer.
PublicIPDeletes(calls) ==
  {calls[i].name : i \in {j \in DOMAIN calls : calls[j].op = "delete" /\ calls[j].kind = "PublicIP"}}

MachineDeletionPending == em.Exists /\ em.Finalizer /\ em.DeletionTimestamp

\* Nothing of the machine is left at the provider.
MachineResourcesGone ==
  /\ em.Name \notin DOMAIN cloud.vms
  /\ BootDiskNameOf(em) \notin DOMAIN cloud.disks
  /\ MachinePublicIPNameOf(em) \notin DOMAIN cloud.publicIPs

\* C40: an EvrocMachine that carries the finalizer and a deletion timestamp
\* eventually has its VM, boot disk and PublicIP deleted and its finalizer
\* removed, also when its EvrocCluster is deleted and removed at the same
\* time or before.
C40_MachineDeletionCompletes ==
  MachineDeletionPending ~> (~em.Finalizer /\ MachineResourcesGone)

====
